---- MODULE Spec2Model ----
(***************************************************************************)
(* Model of the SurrealDB storage adapter: the message table and the       *)
(* context retrieval of MemorySurreal (getMessages / selectBy.include),    *)
(* and the vector collection of SurrealVector (createIndex, upsert, query, *)
(* describeIndex, delete operations).                                      *)
(* It also holds the thread and resource tables of MemorySurreal, the      *)
(* connection handshake of init()/close(), and context retrieval running   *)
(* beside the store calls of concurrent writers.                           *)
(*                                                                         *)
(* Strings whose characters matter (record ids) are sequences of one-      *)
(* character strings; the two Unicode brackets U+27E8 and U+27E9 are the   *)
(* tokens LB and RB.                                                       *)
(***************************************************************************)
EXTENDS Integers, Sequences, FiniteSets, TLC

VARIABLES messages, tableInfo, records, declared, call, threads, resources,
          isConnected, pc, handshakes, reader

vectorVars == <<tableInfo, records, declared>>

sessionVars == <<isConnected, pc, handshakes, reader>>

otherVars == <<threads, resources, sessionVars>>

vars == <<messages, tableInfo, records, declared, call, threads, resources,
          isConnected, pc, handshakes, reader>>

----------------------------------------------------------------------------
(* Bounds of the model *)

MaxTime == 2
MaxCtx == 1
MaxAnchors == 2
MaxBatch == 2
MaxLast == 2

----------------------------------------------------------------------------
(* Generic sequence helpers *)

Range(s) == {s[i] : i \in 1..Len(s)}

SeqsUpTo(S, n) == UNION {[1..k -> S] : k \in 0..n}

Min(a, b) == IF a < b THEN a ELSE b

Max(a, b) == IF a > b THEN a ELSE b

----------------------------------------------------------------------------
(* Record identifiers *)

LB == "U+27E8"

RB == "U+27E9"

MessagesTable == <<"m", "s", "g">>

\* The message ids callers use: a plain one, one with a dash (the store
\* prints it decorated) and one containing ':'.
MsgIds == {<<"a", "1">>, <<"b", "-", "2">>, <<"c", ":", "3">>}

\* The order in which the store scans the message table (record-key order).
ScanOrder == <<(<<"a", "1">>), (<<"b", "-", "2">>), (<<"c", ":", "3">>)>>

Rank(id) == CHOOSE i \in 1..Len(ScanOrder) : ScanOrder[i] = id

PlainChars == {"a", "b", "c", "1", "2", "3"}

RefForms == {"object", "string"}

\* How the store hands a record reference to the client: a RecordId object
\* {tb, id}, or the string "table:value", the value wrapped in U+27E8/U+27E9
\* when it is not a plain identifier.
StoreRef(form, tb, v) ==
  IF form = "object"
    THEN [kind |-> "object", tb |-> tb, id |-> v]
    ELSE [kind |-> "string",
          str |-> IF Range(v) \subseteq PlainChars
                    THEN tb \o <<":">> \o v
                    ELSE tb \o <<":", LB>> \o v \o <<RB>>]

IndexOfChar_Last(str, c) ==
  IF \E i \in 1..Len(str) : str[i] = c
    THEN CHOOSE i \in 1..Len(str) : str[i] = c /\ \A j \in (i + 1)..Len(str) : str[j] # c
    ELSE 0

\* The position of the first c in str, 0 when there is none
IndexOfChar(str, c) ==
  IF \E i \in 1..Len(str) : str[i] = c
    THEN CHOOSE i \in 1..Len(str) : str[i] = c /\ \A j \in 1..(i - 1) : str[j] # c
    ELSE 0

\* str.replace(/^[U+27E8<]/, '')
StripLeading(str) ==
  IF Len(str) > 0 /\ str[1] \in {LB, "<"} THEN SubSeq(str, 2, Len(str)) ELSE str

\* str.replace(/[U+27E9>]$/, '')
StripTrailing(str) ==
  IF Len(str) > 0 /\ str[Len(str)] \in {RB, ">"} THEN SubSeq(str, 1, Len(str) - 1) ELSE str

normalizeId(id) ==
  IF id.kind = "object"
    THEN id.id
    ELSE LET str == id.str
             k == IndexOfChar(str, ":")
         IN IF k > 0
              THEN StripTrailing(StripLeading(SubSeq(str, k + 1, Len(str))))
              ELSE str

----------------------------------------------------------------------------
(* The message table *)

Threads == {"T1", "T2"}

NoThread == "none"

NoMsg == [threadId |-> NoThread, createdAt |-> 0, role |-> "none", type |-> "none",
          content |-> "none"]

Times == 1..MaxTime

Exists(id) == messages[id] # NoMsg

\* Rows in table-scan order, as the client receives them.
Row(form, id) ==
  [id |-> StoreRef(form, MessagesTable, id),
   threadId |-> messages[id].threadId,
   createdAt |-> messages[id].createdAt]

RECURSIVE ScanFrom(_, _)
ScanFrom(form, i) ==
  IF i > Len(ScanOrder) THEN <<>>
  ELSE (IF Exists(ScanOrder[i]) THEN <<Row(form, ScanOrder[i])>> ELSE <<>>)
       \o ScanFrom(form, i + 1)

\* Stable insertion of a row into a list ordered by createdAt: the row goes
\* after every row whose createdAt is not greater.
RECURSIVE InsertByCreatedAt(_, _)
InsertByCreatedAt(sorted, row) ==
  IF sorted = <<>> THEN <<row>>
  ELSE IF Head(sorted).createdAt <= row.createdAt
         THEN <<Head(sorted)>> \o InsertByCreatedAt(Tail(sorted), row)
         ELSE <<row>> \o sorted

RECURSIVE SortByCreatedAt(_)
SortByCreatedAt(rows) ==
  IF rows = <<>> THEN <<>>
  ELSE InsertByCreatedAt(SortByCreatedAt(SubSeq(rows, 1, Len(rows) - 1)), rows[Len(rows)])

\* SELECT * FROM type::thing("mastra_messages", $id)
QueryById_WholeThread(form, id) ==
  IF Exists(id)
    THEN SortByCreatedAt(SelectSeq(ScanFrom(form, 1),
                                   LAMBDA r : r.threadId = messages[id].threadId))
    ELSE <<>>

\* SELECT * FROM type::thing("mastra_messages", $id)
QueryById(form, id) ==
  IF id \in MsgIds /\ Exists(id) THEN <<Row(form, id)>> ELSE <<>>

QueryTarget_NoThreadCheck(form, id, threadId) == QueryById(form, id)

\* SELECT * FROM type::thing("mastra_messages", $id) WHERE threadId = $threadId LIMIT 1
QueryTarget(form, id, threadId) ==
  SelectSeq(QueryById(form, id), LAMBDA r : r.threadId = threadId)

QueryThread_AllThreads(form, threadId) == SortByCreatedAt(ScanFrom(form, 1))

\* SELECT * FROM mastra_messages WHERE threadId = $threadId ORDER BY createdAt ASC
QueryThread(form, threadId) ==
  SortByCreatedAt(SelectSeq(ScanFrom(form, 1), LAMBDA r : r.threadId = threadId))

----------------------------------------------------------------------------
(* Context retrieval *)

\* { ...msg, id: normalizeId(msg.id), createdAt: ensureDate(msg.createdAt) }
Emit(msg) ==
  [id |-> normalizeId(msg.id), threadId |-> msg.threadId, createdAt |-> msg.createdAt]

\* threadMessages.findIndex(m => normalizeId(m.id) === id || m.id === id),
\* 1-based, 0 when absent
findIndex(threadMessages, id) ==
  LET hit(i) == \/ normalizeId(threadMessages[i].id) = id
                \/ (threadMessages[i].id.kind = "string" /\ threadMessages[i].id.str = id)
  IN IF \E i \in 1..Len(threadMessages) : hit(i)
       THEN CHOOSE i \in 1..Len(threadMessages) :
              hit(i) /\ \A j \in 1..(i - 1) : ~hit(j)
       ELSE 0

PushUnseen_NoDedup(acc, msg) ==
  [allMessages |-> Append(acc.allMessages, Emit(msg)),
   seenIds |-> acc.seenIds \cup {normalizeId(msg.id)}]

\* The push guarded by seenIds
PushUnseen(acc, msg) ==
  IF normalizeId(msg.id) \in acc.seenIds
    THEN acc
    ELSE [allMessages |-> Append(acc.allMessages, Emit(msg)),
          seenIds |-> acc.seenIds \cup {normalizeId(msg.id)}]

RECURSIVE PushWindow(_, _, _, _)
PushWindow(acc, threadMessages, i, endIndex) ==
  IF i > endIndex THEN acc
  ELSE PushWindow(PushUnseen(acc, threadMessages[i]), threadMessages, i + 1, endIndex)

\* Math.max(0, targetIndex - withPreviousMessages), 1-based
startIndex(targetIndex, withPreviousMessages) ==
  Max(1, targetIndex - withPreviousMessages)

endIndex_OffByOne(length, targetIndex, withNextMessages) ==
  Min(length, targetIndex + withNextMessages + 1)

\* Math.min(threadMessages.length, targetIndex + withNextMessages + 1), as the
\* 1-based index of the last message of the window
endIndex(length, targetIndex, withNextMessages) ==
  Min(length, targetIndex + withNextMessages)

PushContext_DropsMissing(acc, include, targetMsg, threadMessages) ==
  LET targetIndex == findIndex(threadMessages, include.id)
  IN IF targetIndex = 0
       THEN acc
       ELSE PushWindow(acc, threadMessages,
              startIndex(targetIndex, include.withPreviousMessages),
              endIndex(Len(threadMessages), targetIndex, include.withNextMessages))

\* What follows the two reads of an anchor with threadId: the window around
\* the target in threadMessages, or the target alone when it is not in them
PushContext(acc, include, targetMsg, threadMessages) ==
  LET targetIndex == findIndex(threadMessages, include.id)
  IN IF targetIndex = 0
       THEN PushUnseen(acc, targetMsg)
       ELSE PushWindow(acc, threadMessages,
              startIndex(targetIndex, include.withPreviousMessages),
              endIndex(Len(threadMessages), targetIndex, include.withNextMessages))

\* One iteration of the loop over includes
IncludeStep(acc, include, form) ==
  IF include.threadId = NoThread
    THEN LET results == QueryById(form, include.id)
         IN IF results # <<>> THEN PushUnseen(acc, results[1]) ELSE acc
    ELSE LET targetResults == QueryTarget(form, include.id, include.threadId)
         IN IF targetResults = <<>> THEN acc
            ELSE PushContext(acc, include, targetResults[1],
                             QueryThread(form, include.threadId))

RECURSIVE IncludeLoop_StopsAtMissing(_, _, _, _)
IncludeLoop_StopsAtMissing(acc, includes, i, form) ==
  IF i > Len(includes) THEN acc
  ELSE IF (IF includes[i].threadId = NoThread
             THEN QueryById(form, includes[i].id)
             ELSE QueryTarget(form, includes[i].id, includes[i].threadId)) = <<>>
    THEN acc
  ELSE IncludeLoop_StopsAtMissing(IncludeStep(acc, includes[i], form), includes, i + 1, form)

RECURSIVE IncludeLoop(_, _, _, _)
IncludeLoop(acc, includes, i, form) ==
  IF i > Len(includes) THEN acc
  ELSE IncludeLoop(IncludeStep(acc, includes[i], form), includes, i + 1, form)

getMessagesWithContext_NoSort(includes, form) ==
  IncludeLoop([allMessages |-> <<>>, seenIds |-> {}], includes, 1, form).allMessages

getMessagesWithContext(includes, form) ==
  SortByCreatedAt(
    IncludeLoop([allMessages |-> <<>>, seenIds |-> {}], includes, 1, form).allMessages)

----------------------------------------------------------------------------
(* Operations of MemorySurreal.  call holds the operation the caller awaits  *)
(* the result of: its arguments and what it resolved to.  An operation       *)
(* starts when no call is outstanding; Resolve hands the result over.        *)

Idle == [op |-> "none"]

DefaultLimit == 100

NoLast == -1

\* resolveMessageLimit({ last, defaultLimit })
resolveMessageLimit(last, defaultLimit) ==
  IF last = NoLast THEN defaultLimit ELSE last

Anchors ==
  [id : MsgIds, threadId : Threads \cup {NoThread},
   withPreviousMessages : 0..MaxCtx, withNextMessages : 0..MaxCtx]

IncludeLists == SeqsUpTo(Anchors, MaxAnchors)

RECURSIVE MapEmit(_)
MapEmit(rows) ==
  IF rows = <<>> THEN <<>> ELSE <<Emit(Head(rows))>> \o MapEmit(Tail(rows))

getMessages(threadId, last, include, form) ==
  LET limit == resolveMessageLimit(last, DefaultLimit)
  IN IF Len(include) > 0
       THEN getMessagesWithContext(include, form)
       ELSE LET ordered == QueryThread(form, threadId)
            IN MapEmit(SubSeq(ordered, 1, Min(limit, Len(ordered))))

GetMessages ==
  /\ call = Idle
  /\ \E threadId \in Threads, include \in IncludeLists, form \in RefForms :
       \E last \in (IF include = <<>> THEN {NoLast} \cup 0..MaxLast ELSE {NoLast}) :
         call' = [op |-> "getMessages", threadId |-> threadId, last |-> last,
                  include |-> include,
                  result |-> getMessages(threadId, last, include, form)]
  /\ UNCHANGED <<otherVars, messages, vectorVars>>

NoTime == 0

InsertMessage_Replaces(table, msg, now) ==
  [table EXCEPT ![msg.id] =
     [threadId |-> msg.threadId,
      createdAt |-> IF msg.createdAt = NoTime THEN now ELSE msg.createdAt,
      role |-> msg.role, type |-> msg.type, content |-> msg.content]]

\* INSERT INTO mastra_messages {...} ON DUPLICATE KEY UPDATE content = $content
InsertMessage(table, msg, now) ==
  IF table[msg.id] # NoMsg
    THEN [table EXCEPT ![msg.id].content = msg.content]
    ELSE [table EXCEPT ![msg.id] =
            [threadId |-> msg.threadId,
             createdAt |-> IF msg.createdAt = NoTime THEN now ELSE msg.createdAt,
             role |-> msg.role, type |-> msg.type, content |-> msg.content]]

\* No store call of the batch fails
NoFailure == 0

RECURSIVE SaveLoop_ContinuesAfterError(_, _, _, _, _)
SaveLoop_ContinuesAfterError(table, msgs, i, now, failAt) ==
  IF i > Len(msgs) THEN [table |-> table, done |-> i - 1, error |-> failAt # NoFailure]
  ELSE IF i = failAt THEN SaveLoop_ContinuesAfterError(table, msgs, i + 1, now, failAt)
  ELSE SaveLoop_ContinuesAfterError(InsertMessage(table, msgs[i], now), msgs, i + 1, now,
                                    failAt)

\* for (const msg of messages) { await this.db.query(INSERT ...) }: the store
\* call of item failAt throws, and nothing catches it
RECURSIVE SaveLoop(_, _, _, _, _)
SaveLoop(table, msgs, i, now, failAt) ==
  IF i > Len(msgs) THEN [table |-> table, done |-> i - 1, error |-> FALSE]
  ELSE IF i = failAt THEN [table |-> table, done |-> i - 1, error |-> TRUE]
  ELSE SaveLoop(InsertMessage(table, msgs[i], now), msgs, i + 1, now, failAt)

\* saveMessages called with up to maxBatch messages drawn from shapes
SaveMessagesOf(shapes, maxBatch) ==
  /\ call = Idle
  /\ \E msgs \in SeqsUpTo(shapes, maxBatch), now \in Times :
       \E failAt \in {NoFailure} \cup 1..Len(msgs) :
         LET done == SaveLoop(messages, msgs, 1, now, failAt)
         IN /\ (\A i \in 1..Len(msgs) : msgs[i].createdAt # NoTime) => now = MaxTime
            /\ messages' = done.table
            /\ call' = [op |-> "saveMessages", messages |-> msgs, table |-> messages,
                        failAt |-> failAt, done |-> done.done, error |-> done.error]
  /\ UNCHANGED <<vectorVars, otherVars>>

\* Messages that differ in id, conversation and creation time only
PlainMessages ==
  [id : MsgIds, threadId : Threads, createdAt : Times \cup {NoTime}, role : {"user"},
   type : {"text"}, content : {"c1"}]

SaveMessages == SaveMessagesOf(PlainMessages, MaxBatch)

\* for (const messageId of messageIds) { await this.db.query(DELETE ...) }
RECURSIVE DeleteLoop(_, _, _, _)
DeleteLoop(table, messageIds, i, failAt) ==
  IF i > Len(messageIds) THEN [table |-> table, done |-> i - 1, error |-> FALSE]
  ELSE IF i = failAt THEN [table |-> table, done |-> i - 1, error |-> TRUE]
  ELSE DeleteLoop([table EXCEPT ![messageIds[i]] = NoMsg], messageIds, i + 1, failAt)

DeleteMessages ==
  /\ call = Idle
  /\ \E messageIds \in SeqsUpTo(MsgIds, MaxBatch) :
       \E failAt \in {NoFailure} \cup 1..Len(messageIds) :
         LET done == DeleteLoop(messages, messageIds, 1, failAt)
         IN /\ messages' = done.table
            /\ call' = [op |-> "deleteMessages", messageIds |-> messageIds,
                        table |-> messages, failAt |-> failAt, done |-> done.done,
                        error |-> done.error]
  /\ UNCHANGED <<vectorVars, otherVars>>

Resolve ==
  /\ call # Idle
  /\ call' = Idle
  /\ UNCHANGED <<otherVars, messages, vectorVars>>

----------------------------------------------------------------------------
(* Threads and resources *)

ResourceIds == {"R1", "R2"}

Titles == {"t1", "t2"}

\* A thread row: title stands for the two columns the writes set together
\* (title, metadata); the timestamps are not represented.
NoThreadRow == [resourceId |-> "none", title |-> "none"]

\* SELECT * FROM type::thing("mastra_threads", $threadId); NoThreadRow is null
getThreadById(table, threadId) == table[threadId]

\* INSERT INTO mastra_threads {...} ON DUPLICATE KEY UPDATE title, metadata
saveThread(table, thread) ==
  IF table[thread.id] # NoThreadRow
    THEN [table EXCEPT ![thread.id].title = thread.title]
    ELSE [table EXCEPT ![thread.id] =
            [resourceId |-> thread.resourceId, title |-> thread.title]]

updateThread_CreatesMissing(table, id, title) ==
  [table |-> [table EXCEPT ![id] = [resourceId |-> table[id].resourceId, title |-> title]],
   error |-> table[id] = NoThreadRow]

\* UPDATE type::thing("mastra_threads", $id) SET ... RETURN AFTER; the store
\* (SurrealDB 2.x) creates nothing when the record is missing, and the empty
\* result throws `Thread ${id} not found`.
updateThread(table, id, title) ==
  IF table[id] = NoThreadRow
    THEN [table |-> table, error |-> TRUE]
    ELSE [table |-> [table EXCEPT ![id].title = title], error |-> FALSE]

\* The two store calls of deleteThread
DeleteSteps == 2

deleteThread_KeepsMessages(msgs, table, threadId, failAt) ==
  [messages |-> msgs,
   threads |-> IF failAt = NoFailure THEN [table EXCEPT ![threadId] = NoThreadRow]
               ELSE table,
   error |-> failAt # NoFailure]

\* DELETE FROM mastra_messages WHERE threadId = $threadId, then
\* DELETE type::thing("mastra_threads", $threadId); store call failAt throws.
deleteThread(msgs, table, threadId, failAt) ==
  [messages |-> IF failAt = 1 THEN msgs
                ELSE [id \in MsgIds |->
                        IF msgs[id].threadId = threadId THEN NoMsg ELSE msgs[id]],
   threads |-> IF failAt = NoFailure THEN [table EXCEPT ![threadId] = NoThreadRow]
               ELSE table,
   error |-> failAt # NoFailure]

GetThreadById ==
  /\ call = Idle
  /\ \E threadId \in Threads :
       call' = [op |-> "getThreadById", threadId |-> threadId,
                result |-> getThreadById(threads, threadId)]
  /\ UNCHANGED <<messages, vectorVars, otherVars>>

SaveThread ==
  /\ call = Idle
  /\ \E thread \in [id : Threads, resourceId : ResourceIds, title : Titles] :
       /\ threads' = saveThread(threads, thread)
       /\ call' = [op |-> "saveThread", thread |-> thread]
  /\ UNCHANGED <<messages, vectorVars, resources, sessionVars>>

UpdateThread ==
  /\ call = Idle
  /\ \E id \in Threads, title \in Titles :
       LET done == updateThread(threads, id, title)
       IN /\ threads' = done.table
          /\ call' = [op |-> "updateThread", id |-> id, title |-> title,
                      threads |-> threads, resources |-> resources,
                      error |-> done.error]
  /\ UNCHANGED <<messages, vectorVars, resources, sessionVars>>

DeleteThread ==
  /\ call = Idle
  /\ \E threadId \in Threads, failAt \in {NoFailure} \cup 1..DeleteSteps :
       LET done == deleteThread(messages, threads, threadId, failAt)
       IN /\ messages' = done.messages
          /\ threads' = done.threads
          /\ call' = [op |-> "deleteThread", threadId |-> threadId,
                      table |-> messages, threads |-> threads, error |-> done.error]
  /\ UNCHANGED <<vectorVars, resources, sessionVars>>

MaxResources == 2

WorkingMemories == {"w1", "w2"}

NoValue == "undefined"

\* INSERT INTO mastra_resources {...}: the row gets a key of its own, so the
\* ON DUPLICATE KEY branch is never taken.
saveResource(table, resource) ==
  Append(table, [resourceId |-> resource.resourceId,
                 workingMemory |-> resource.workingMemory])

\* UPDATE mastra_resources SET ... WHERE resourceId = $resourceId RETURN AFTER;
\* an undefined workingMemory adds no assignment, and an empty result throws
\* `Resource ${resourceId} not found`.
updateResource(table, resourceId, workingMemory) ==
  LET matches == {i \in 1..Len(table) : table[i].resourceId = resourceId}
  IN IF matches = {}
       THEN [table |-> table, error |-> TRUE]
       ELSE [table |-> [i \in 1..Len(table) |->
                          IF i \in matches /\ workingMemory # NoValue
                            THEN [table[i] EXCEPT !.workingMemory = workingMemory]
                            ELSE table[i]],
             error |-> FALSE]

SaveResource ==
  /\ call = Idle
  /\ Len(resources) < MaxResources
  /\ \E resource \in [resourceId : ResourceIds, workingMemory : WorkingMemories] :
       /\ resources' = saveResource(resources, resource)
       /\ call' = [op |-> "saveResource", resource |-> resource]
  /\ UNCHANGED <<messages, vectorVars, threads, sessionVars>>

UpdateResource ==
  /\ call = Idle
  /\ \E resourceId \in ResourceIds, workingMemory \in WorkingMemories \cup {NoValue} :
       LET done == updateResource(resources, resourceId, workingMemory)
       IN /\ resources' = done.table
          /\ call' = [op |-> "updateResource", resourceId |-> resourceId,
                      threads |-> threads, resources |-> resources,
                      error |-> done.error]
  /\ UNCHANGED <<messages, vectorVars, threads, sessionVars>>

\* One message at a time, for the first two message ids
ThreadMessages == {m \in PlainMessages : m.id # ScanOrder[Len(ScanOrder)]}

SaveThreadMessages == SaveMessagesOf(ThreadMessages, 1)

----------------------------------------------------------------------------
(* Message content *)

Contents == {"c1", "c2"}

\* Messages of two kinds and two contents, for the first two message ids
ContentMessages ==
  {m \in [id : MsgIds, threadId : Threads, createdAt : Times \cup {NoTime},
          role : {"user", "assistant"}, type : {"text", "tool-call"}, content : Contents] :
     /\ m.id # ScanOrder[Len(ScanOrder)]
     /\ (m.role = "user") = (m.type = "text")}

SaveContentMessages == SaveMessagesOf(ContentMessages, 1)

\* for (const msg of messages) { UPDATE type::thing("mastra_messages", $id)
\* SET content = $content RETURN AFTER; if (results[0]?.[0]) updated.push(...) }
\* A missing record is not created; an undefined content unsets the field.
RECURSIVE UpdateLoop(_, _, _, _, _)
UpdateLoop(table, updated, msgs, i, failAt) ==
  IF i > Len(msgs) THEN [table |-> table, updated |-> updated, error |-> FALSE]
  ELSE IF i = failAt THEN [table |-> table, updated |-> updated, error |-> TRUE]
  ELSE IF table[msgs[i].id] = NoMsg THEN UpdateLoop(table, updated, msgs, i + 1, failAt)
  ELSE UpdateLoop([table EXCEPT ![msgs[i].id].content = msgs[i].content],
                  Append(updated, msgs[i].id), msgs, i + 1, failAt)

UpdateMessages ==
  /\ call = Idle
  /\ \E msgs \in SeqsUpTo([id : MsgIds, content : Contents \cup {NoValue}], MaxBatch) :
       \E failAt \in {NoFailure} \cup 1..Len(msgs) :
         LET done == UpdateLoop(messages, <<>>, msgs, 1, failAt)
         IN /\ messages' = done.table
            /\ call' = [op |-> "updateMessages", messages |-> msgs, table |-> messages,
                        updated |-> done.updated, error |-> done.error]
  /\ UNCHANGED <<vectorVars, otherVars>>

----------------------------------------------------------------------------
(* The connection of one SurrealStore / SurrealVector instance.  Every       *)
(* operation awaits init() first; each await lets the other callers run.     *)

Callers == {"p1", "p2", "p3"}

storeVars == <<messages, vectorVars, call, threads, resources, reader>>

\* if (this.isConnected) return;  otherwise  await this.db.connect(url)
InitEnter(p) ==
  /\ pc[p] = "out"
  /\ pc' = [pc EXCEPT ![p] = IF isConnected THEN "returned" ELSE "connect"]
  /\ UNCHANGED <<isConnected, handshakes, storeVars>>

\* connect resolved:  await this.db.signin({...})  (or authenticate(token))
InitConnected(p) ==
  /\ pc[p] = "connect"
  /\ pc' = [pc EXCEPT ![p] = "signin"]
  /\ UNCHANGED <<isConnected, handshakes, storeVars>>

\* signin resolved:  await this.db.use({ namespace, database })
InitSignedIn(p) ==
  /\ pc[p] = "signin"
  /\ pc' = [pc EXCEPT ![p] = "use"]
  /\ UNCHANGED <<isConnected, handshakes, storeVars>>

\* use resolved:  this.isConnected = true;  handshakes counts the handshakes
\* completed since construction or the last close
InitUsed(p) ==
  /\ pc[p] = "use"
  /\ isConnected' = TRUE
  /\ handshakes' = handshakes + 1
  /\ pc' = [pc EXCEPT ![p] = "returned"]
  /\ UNCHANGED storeVars

\* connect, signin or use rejects: init throws with isConnected as it was
InitFailed(p) ==
  /\ pc[p] \in {"connect", "signin", "use"}
  /\ pc' = [pc EXCEPT ![p] = "out"]
  /\ UNCHANGED <<isConnected, handshakes, storeVars>>

\* The operation that awaited init() finishes
Finish(p) ==
  /\ pc[p] = "returned"
  /\ pc' = [pc EXCEPT ![p] = "out"]
  /\ UNCHANGED <<isConnected, handshakes, storeVars>>

\* close():  await this.db.close()
CloseEnter(p) ==
  /\ pc[p] = "out"
  /\ pc' = [pc EXCEPT ![p] = "close"]
  /\ UNCHANGED <<isConnected, handshakes, storeVars>>

\* db.close() resolved:  this.isConnected = false
Closed(p) ==
  /\ pc[p] = "close"
  /\ isConnected' = FALSE
  /\ handshakes' = 0
  /\ pc' = [pc EXCEPT ![p] = "out"]
  /\ UNCHANGED storeVars

----------------------------------------------------------------------------
(* Context retrieval beside concurrent writers.  The reader runs              *)
(* getMessagesWithContext for one anchor with a threadId; its two reads are   *)
(* separate store calls, and between them the store calls of concurrent       *)
(* saveMessages, deleteMessages and deleteThread operations take effect, one  *)
(* store call at a time.                                                      *)

connectionVars == <<isConnected, pc, handshakes>>

\* First read: SELECT ... type::thing("mastra_messages", $id) WHERE threadId = $threadId;
\* `if (!targetMsg) continue` ends the only iteration with nothing pushed.
ReadTarget ==
  /\ reader.pc = "idle"
  /\ \E include \in {a \in Anchors : a.threadId # NoThread}, form \in RefForms :
       LET targetResults == QueryTarget(form, include.id, include.threadId)
       IN reader' = IF targetResults = <<>>
                      THEN [pc |-> "done", include |-> include, form |-> form,
                            targetResults |-> <<>>, threadMessages |-> <<>>,
                            result |-> <<>>]
                      ELSE [pc |-> "target", include |-> include, form |-> form,
                            targetResults |-> targetResults]
  /\ UNCHANGED <<messages, vectorVars, call, threads, resources, connectionVars>>

\* Second read: SELECT ... WHERE threadId = $threadId ORDER BY createdAt ASC,
\* then the window, then the sort
ReadThread ==
  /\ reader.pc = "target"
  /\ LET threadMessages == QueryThread(reader.form, reader.include.threadId)
         acc == PushContext([allMessages |-> <<>>, seenIds |-> {}], reader.include,
                            reader.targetResults[1], threadMessages)
     IN reader' = [pc |-> "done", include |-> reader.include, form |-> reader.form,
                   targetResults |-> reader.targetResults,
                   threadMessages |-> threadMessages,
                   result |-> SortByCreatedAt(acc.allMessages)]
  /\ UNCHANGED <<messages, vectorVars, call, threads, resources, connectionVars>>

\* The result is handed to the caller
ReadReturn ==
  /\ reader.pc = "done"
  /\ reader' = [pc |-> "idle"]
  /\ UNCHANGED <<messages, vectorVars, call, threads, resources, connectionVars>>

\* One INSERT of a concurrent saveMessages
SaveMessagesCall ==
  /\ \E msg \in PlainMessages, now \in Times :
       /\ msg.createdAt # NoTime => now = MaxTime
       /\ messages' = InsertMessage(messages, msg, now)
  /\ UNCHANGED <<vectorVars, call, otherVars>>

\* One DELETE of a concurrent deleteMessages
DeleteMessagesCall ==
  /\ \E messageId \in MsgIds :
       messages' = DeleteLoop(messages, <<messageId>>, 1, NoFailure).table
  /\ UNCHANGED <<vectorVars, call, otherVars>>

\* The DELETE FROM mastra_messages WHERE threadId = $threadId of a concurrent
\* deleteThread
DeleteThreadCall ==
  /\ \E threadId \in Threads :
       messages' = deleteThread(messages, threads, threadId, DeleteSteps).messages
  /\ UNCHANGED <<vectorVars, call, otherVars>>

Init ==
  /\ messages = [id \in MsgIds |-> NoMsg]
  /\ tableInfo = <<>>
  /\ records = <<>>
  /\ declared = [dimension |-> 0, metric |-> "undefined"]
  /\ call = Idle
  /\ threads = [threadId \in Threads |-> NoThreadRow]
  /\ resources = <<>>
  /\ isConnected = FALSE
  /\ pc = [p \in Callers |-> "out"]
  /\ handshakes = 0
  /\ reader = [pc |-> "idle"]

Next == GetMessages \/ SaveMessages \/ DeleteMessages \/ Resolve

Spec == Init /\ [][Next]_vars

NextThreads ==
  \/ GetThreadById \/ SaveThread \/ UpdateThread \/ DeleteThread
  \/ SaveResource \/ UpdateResource \/ SaveThreadMessages \/ Resolve

SpecThreads == Init /\ [][NextThreads]_vars

NextContent == SaveContentMessages \/ UpdateMessages \/ DeleteMessages \/ Resolve

SpecContent == Init /\ [][NextContent]_vars

NextConnection ==
  \E p \in Callers :
    \/ InitEnter(p) \/ InitConnected(p) \/ InitSignedIn(p) \/ InitUsed(p)
    \/ InitFailed(p) \/ Finish(p) \/ CloseEnter(p) \/ Closed(p)

SpecConnection == Init /\ [][NextConnection]_vars

NextRace ==
  \/ ReadTarget \/ ReadThread \/ ReadReturn
  \/ SaveMessagesCall \/ DeleteMessagesCall \/ DeleteThreadCall

SpecRace == Init /\ [][NextRace]_vars

----------------------------------------------------------------------------
(* Query text.  A text is a sequence of lexemes; DQ is the double quote.    *)
(* Numbers are written in decimal, one lexeme per digit.                    *)

DQ == "\""

DigitChars == <<"0", "1", "2", "3", "4", "5", "6", "7", "8", "9">>

IsDigit(c) == \E d \in 1..Len(DigitChars) : DigitChars[d] = c

DigitValue(c) == (CHOOSE d \in 1..Len(DigitChars) : DigitChars[d] = c) - 1

\* `${n}` for a non-negative integer
RECURSIVE ToDigits(_)
ToDigits(n) ==
  IF n < 10 THEN <<DigitChars[n + 1]>>
  ELSE ToDigits(n \div 10) \o <<DigitChars[(n % 10) + 1]>>

\* The value of a run of digits (parseInt(digits, 10))
RECURSIVE ParseDigits(_)
ParseDigits(ds) ==
  IF Len(ds) = 0 THEN 0
  ELSE 10 * ParseDigits(SubSeq(ds, 1, Len(ds) - 1)) + DigitValue(ds[Len(ds)])

\* The longest run of digits of text that starts at position i
RECURSIVE DigitRun(_, _)
DigitRun(text, i) ==
  IF i <= Len(text) /\ IsDigit(text[i]) THEN <<text[i]>> \o DigitRun(text, i + 1) ELSE <<>>

RECURSIVE Join(_, _)
Join(parts, sep) ==
  IF Len(parts) = 0 THEN <<>>
  ELSE IF Len(parts) = 1 THEN parts[1]
  ELSE parts[1] \o sep \o Join(Tail(parts), sep)

----------------------------------------------------------------------------
(* JavaScript values of metadata and filters *)

JStr(s) == [t |-> "string", s |-> s, n |-> 0, items |-> <<>>]

JNum(n) == [t |-> "number", s |-> <<>>, n |-> n, items |-> <<>>]

JBool(b) == [t |-> "boolean", s |-> <<>>, n |-> IF b THEN 1 ELSE 0, items |-> <<>>]

JNull == [t |-> "null", s |-> <<>>, n |-> 0, items |-> <<>>]

JObject == [t |-> "object", s |-> <<>>, n |-> 0, items |-> <<>>]

JArray(items) == [t |-> "array", s |-> <<>>, n |-> 0, items |-> items]

Keys == {"cat", "n", "ok"}

\* `metadata.${key}`
PathOf(key) ==
  CASE key = "cat" -> "metadata.cat"
    [] key = "n" -> "metadata.n"
    [] key = "ok" -> "metadata.ok"

NoMeta == [k \in Keys |-> JNull]

MetaX == [cat |-> JStr(<<"x">>), n |-> JNum(1), ok |-> JBool(TRUE)]

MetaY == [cat |-> JStr(<<"y">>), n |-> JNum(2), ok |-> JBool(FALSE)]

\* The string  y" OR "" = "
Quoted == <<"y", DQ, "OR", DQ, DQ, "=", DQ>>

NoFilter == [present |-> FALSE, entries |-> <<>>]

Filter(entries) == [present |-> TRUE, entries |-> entries]

Entry(key, value) == [key |-> key, value |-> value]

Filters ==
  {NoFilter, Filter(<<>>),
   Filter(<<Entry("cat", JStr(<<"x">>))>>),
   Filter(<<Entry("cat", JStr(<<"z">>))>>),
   Filter(<<Entry("cat", JStr(Quoted))>>),
   Filter(<<Entry("n", JNum(2))>>),
   Filter(<<Entry("ok", JBool(TRUE))>>),
   Filter(<<Entry("cat", JStr(<<"x">>)), Entry("n", JNum(1))>>),
   Filter(<<Entry("cat", JStr(<<"x">>)), Entry("n", JNum(2))>>),
   Filter(<<Entry("cat", JArray(<<JStr(<<"x">>), JStr(<<"z">>)>>))>>),
   Filter(<<Entry("n", JArray(<<JNum(1), JNum(2)>>))>>),
   Filter(<<Entry("cat", JNull)>>),
   Filter(<<Entry("cat", JNull), Entry("n", JNum(2))>>),
   Filter(<<Entry("cat", JObject)>>)}

----------------------------------------------------------------------------
(* SurrealVector.buildFilterClauses *)

\* typeof v === 'string' ? `"${v}"` : v
FormatItem(v) ==
  IF v.t = "string" THEN <<DQ>> \o v.s \o <<DQ>>
  ELSE IF v.t = "number" THEN ToDigits(v.n)
  ELSE IF v.t = "boolean" THEN (IF v.n = 1 THEN <<"true">> ELSE <<"false">>)
  ELSE <<>>

RECURSIVE FormatItems(_)
FormatItems(items) ==
  IF Len(items) = 0 THEN <<>>
  ELSE <<FormatItem(Head(items))>> \o FormatItems(Tail(items))

Clause_NullCompared(entry) ==
  <<(<<PathOf(entry.key), "=">> \o FormatItem(entry.value))>>

\* The clause of one entry, <<>> when the entry gives none
Clause(entry) ==
  LET value == entry.value
  IN IF value.t = "string"
       THEN <<(<<PathOf(entry.key), "=", DQ>> \o value.s \o <<DQ>>)>>
     ELSE IF value.t \in {"number", "boolean"}
       THEN <<(<<PathOf(entry.key), "=">> \o FormatItem(value))>>
     ELSE IF value.t = "array"
       THEN <<(<<PathOf(entry.key), "IN", "[">>
               \o Join(FormatItems(value.items), <<",">>) \o <<"]">>)>>
     ELSE <<>>

RECURSIVE Clauses(_)
Clauses(entries) ==
  IF Len(entries) = 0 THEN <<>>
  ELSE Clause(Head(entries)) \o Clauses(Tail(entries))

buildFilterClauses(filter) == Join(Clauses(filter.entries), <<"AND">>)

----------------------------------------------------------------------------
(* The store's reading of a WHERE text *)

Sym(v) == [k |-> "sym", v |-> v, s |-> <<>>]

StrLit(s) == [k |-> "str", v |-> "", s |-> s]

\* Lexing: a double quote opens a string literal that runs to the next
\* double quote; ok is FALSE when a literal is left open.
RECURSIVE LexFrom(_, _, _, _, _)
LexFrom(text, i, inStr, cur, out) ==
  IF i > Len(text) THEN [ok |-> ~inStr, toks |-> out]
  ELSE IF text[i] = DQ
    THEN IF inStr THEN LexFrom(text, i + 1, FALSE, <<>>, Append(out, StrLit(cur)))
                  ELSE LexFrom(text, i + 1, TRUE, <<>>, out)
  ELSE IF inStr THEN LexFrom(text, i + 1, TRUE, Append(cur, text[i]), out)
  ELSE LexFrom(text, i + 1, FALSE, <<>>, Append(out, Sym(text[i])))

Lex(text) == LexFrom(text, 1, FALSE, <<>>, <<>>)

IsSym(tok, v) == tok.k = "sym" /\ tok.v = v

\* The pieces of toks between the occurrences of the symbol v
RECURSIVE SplitFrom(_, _, _, _)
SplitFrom(toks, v, i, cur) ==
  IF i > Len(toks) THEN <<cur>>
  ELSE IF IsSym(toks[i], v) THEN <<cur>> \o SplitFrom(toks, v, i + 1, <<>>)
  ELSE SplitFrom(toks, v, i + 1, Append(cur, toks[i]))

SplitOn(toks, v) == SplitFrom(toks, v, 1, <<>>)

FirstSym(toks, v) ==
  IF \E i \in 1..Len(toks) : IsSym(toks[i], v)
    THEN CHOOSE i \in 1..Len(toks) :
           IsSym(toks[i], v) /\ \A j \in 1..(i - 1) : ~IsSym(toks[j], v)
    ELSE 0

Reserved == {"=", "IN", "[", "]", ",", "<|", "|>", "AND", "OR", "$queryVector"}

AllDigits(toks) ==
  Len(toks) > 0 /\ \A i \in 1..Len(toks) : toks[i].k = "sym" /\ IsDigit(toks[i].v)

\* An operand: a string literal, a number, or a word (true, false, a field)
IsOperand(toks) ==
  \/ AllDigits(toks)
  \/ Len(toks) = 1 /\ (toks[1].k = "str" \/ toks[1].v \notin Reserved)

\* The value of an operand on a record [id, embedding, metadata]
OperandValue(toks, rec) ==
  IF AllDigits(toks) THEN JNum(ParseDigits([i \in 1..Len(toks) |-> toks[i].v]))
  ELSE IF toks[1].k = "str" THEN JStr(toks[1].s)
  ELSE IF toks[1].v = "true" THEN JBool(TRUE)
  ELSE IF toks[1].v = "false" THEN JBool(FALSE)
  ELSE IF toks[1].v = "id" THEN JStr(rec.id)
  ELSE IF \E key \in Keys : PathOf(key) = toks[1].v
    THEN rec.metadata[CHOOSE key \in Keys : PathOf(key) = toks[1].v]
  ELSE JNull

Truthy(v) ==
  \/ v.t = "boolean" /\ v.n = 1
  \/ v.t = "number" /\ v.n # 0
  \/ v.t = "string" /\ v.s # <<>>

\* embedding <|k, ef|> $queryVector
IsKnn(toks) ==
  LET c == FirstSym(toks, ",")
      g == FirstSym(toks, "|>")
  IN /\ Len(toks) >= 7
     /\ IsSym(toks[1], "embedding") /\ IsSym(toks[2], "<|")
     /\ c > 3 /\ g > c + 1 /\ g = Len(toks) - 1
     /\ AllDigits(SubSeq(toks, 3, c - 1))
     /\ AllDigits(SubSeq(toks, c + 1, g - 1))
     /\ IsSym(toks[Len(toks)], "$queryVector")

KnnK(toks) ==
  LET c == FirstSym(toks, ",")
      ds == SubSeq(toks, 3, c - 1)
  IN ParseDigits([i \in 1..Len(ds) |-> ds[i].v])

\* The items of a bracketed list, <<>> for []
ListItems(toks) ==
  IF Len(toks) = 2 THEN <<>> ELSE SplitOn(SubSeq(toks, 2, Len(toks) - 1), ",")

IsList(toks) ==
  /\ Len(toks) >= 2 /\ IsSym(toks[1], "[") /\ IsSym(toks[Len(toks)], "]")
  /\ \A i \in 1..Len(ListItems(toks)) : IsOperand(ListItems(toks)[i])

AtomOK(toks) ==
  LET e == FirstSym(toks, "=")
      m == FirstSym(toks, "IN")
  IN IF e > 0
       THEN IsOperand(SubSeq(toks, 1, e - 1)) /\ IsOperand(SubSeq(toks, e + 1, Len(toks)))
     ELSE IF m > 0
       THEN IsOperand(SubSeq(toks, 1, m - 1)) /\ IsList(SubSeq(toks, m + 1, Len(toks)))
     ELSE IsKnn(toks) \/ IsOperand(toks)

\* Whether the atom holds of rec; knn is the value of a nearest-neighbour atom
AtomHolds(toks, rec, knn) ==
  LET e == FirstSym(toks, "=")
      m == FirstSym(toks, "IN")
  IN IF e > 0
       THEN OperandValue(SubSeq(toks, 1, e - 1), rec)
              = OperandValue(SubSeq(toks, e + 1, Len(toks)), rec)
     ELSE IF m > 0
       THEN LET items == ListItems(SubSeq(toks, m + 1, Len(toks)))
            IN \E i \in 1..Len(items) :
                 OperandValue(SubSeq(toks, 1, m - 1), rec) = OperandValue(items[i], rec)
     ELSE IF IsKnn(toks) THEN knn
     ELSE Truthy(OperandValue(toks, rec))

\* A condition is a disjunction (OR) of conjunctions (AND) of atoms.
Conjuncts(toks) ==
  LET ds == SplitOn(toks, "OR")
  IN [d \in 1..Len(ds) |-> SplitOn(ds[d], "AND")]

\* The reading of a text: ok is FALSE when the store rejects it
Parse(text) ==
  LET lexed == Lex(text)
      cs == Conjuncts(lexed.toks)
  IN [ok |-> lexed.ok /\ \A d \in 1..Len(cs) : \A a \in 1..Len(cs[d]) : AtomOK(cs[d][a]),
      cs |-> cs]

ConditionHolds(cond, rec, knn) ==
  \E d \in 1..Len(cond.cs) :
    \A a \in 1..Len(cond.cs[d]) : AtomHolds(cond.cs[d][a], rec, knn)

\* The k of the nearest-neighbour atom of a condition
ConditionK(cond) ==
  LET d == CHOOSE d \in 1..Len(cond.cs) : \E a \in 1..Len(cond.cs[d]) : IsKnn(cond.cs[d][a])
      a == CHOOSE a \in 1..Len(cond.cs[d]) : IsKnn(cond.cs[d][a])
  IN KnnK(cond.cs[d][a])

----------------------------------------------------------------------------
(* The vector collection in the store *)

MaxVecs == 2

MaxUpsert == 2

MaxTopK == 2

\* The ids of vector records: the first MaxVecs ids in key order
VecIds == {ScanOrder[i] : i \in 1..Min(MaxVecs, Len(ScanOrder))}

IndexName == <<"integration_", "embedding", "s">>

\* mastra_vector_${indexName}
getTableName(indexName) == <<"mastra_vector_">> \o indexName

\* The unit vector of the k-th axis
Unit(dimension, k) == [i \in 1..dimension |-> IF i = k THEN 1 ELSE 0]

\* A vector that is not normalised: twice the first unit vector
Twice(dimension) == [i \in 1..dimension |-> IF i = 1 THEN 2 ELSE 0]

\* The vectors drawn for a collection: the first unit vector and the second
\* one or, in the four-dimensional collections, the vector that is not
\* normalised
Vectors(dimension) ==
  {Unit(dimension, 1), IF dimension = 4 THEN Twice(dimension) ELSE Unit(dimension, 2)}

Scale == 100

RECURSIVE Dot(_, _)
Dot(u, v) == IF Len(u) = 0 THEN 0 ELSE Head(u) * Head(v) + Dot(Tail(u), Tail(v))

RECURSIVE SquaredDiff(_, _)
SquaredDiff(u, v) ==
  IF Len(u) = 0 THEN 0
  ELSE (Head(u) - Head(v)) * (Head(u) - Head(v)) + SquaredDiff(Tail(u), Tail(v))

ISqrt(n) == CHOOSE r \in 0..n : r * r <= n /\ (r + 1) * (r + 1) > n

Norm(u) == ISqrt(Dot(u, u))

\* The store's distance between two vectors, in hundredths
Distance(dist, u, v) ==
  CASE dist = "COSINE" -> Scale - (Scale * Dot(u, v)) \div (Norm(u) * Norm(v))
    [] dist = "EUCLIDEAN" -> ISqrt(Scale * Scale * SquaredDiff(u, v))
    [] dist = "DOTPRODUCT" -> 0 - Scale * Dot(u, v)

----------------------------------------------------------------------------
(* Index definitions: what createIndex writes and INFO FOR TABLE returns *)

SP == " "

NoMetric == "undefined"

\* METRIC_MAP[metric] || 'COSINE'
METRIC_MAP(metric) ==
  CASE metric = "cosine" -> "COSINE"
    [] metric = "euclidean" -> "EUCLIDEAN"
    [] metric = "dotproduct" -> "DOTPRODUCT"
    [] OTHER -> "COSINE"

toLowerCase(word) ==
  CASE word = "COSINE" -> "cosine"
    [] word = "EUCLIDEAN" -> "euclidean"
    [] word = "DOTPRODUCT" -> "dotproduct"
    [] OTHER -> word

\* DEFINE INDEX idx_${indexName}_id ON ${tableName} FIELDS id UNIQUE
IdIndexDef(indexName) ==
  <<"DEFINE", SP, "INDEX", SP, "idx_">> \o indexName \o <<"_", "id", SP, "ON", SP>>
    \o getTableName(indexName) \o <<SP, "FIELDS", SP, "id", SP, "UNIQUE">>

\* DEFINE INDEX idx_${indexName}_embedding ON ${tableName} FIELDS embedding
\*   HNSW DIMENSION ${dimension} DIST ${surrealMetric} TYPE F32
EmbeddingIndexDef(indexName, dimension, surrealMetric) ==
  <<"DEFINE", SP, "INDEX", SP, "idx_">> \o indexName \o <<"_", "embedding", SP, "ON", SP>>
    \o getTableName(indexName)
    \o <<SP, "FIELDS", SP, "embedding", SP, "HNSW", SP, "DIMENSION", SP>>
    \o ToDigits(dimension) \o <<SP, "DIST", SP, surrealMetric, SP, "TYPE", SP, "F32">>

\* The table's index definitions as INFO FOR TABLE lists them: by index name,
\* idx_..._embedding before idx_..._id.
InfoIndexes(indexName, dimension, surrealMetric) ==
  <<EmbeddingIndexDef(indexName, dimension, surrealMetric), IdIndexDef(indexName)>>

NoTable == <<>>

\* idx.includes('embedding')
includesEmbedding(text) == \E i \in 1..Len(text) : text[i] = "embedding"

\* The first position after word followed by white space, 0 when there is none
AfterWord(text, word) ==
  LET at(i) == text[i] = word /\ i + 2 <= Len(text) /\ text[i + 1] = SP /\ text[i + 2] # SP
  IN IF \E i \in 1..Len(text) : at(i)
       THEN (CHOOSE i \in 1..Len(text) : at(i) /\ \A j \in 1..(i - 1) : ~at(j)) + 2
       ELSE 0

\* embeddingIndex.match(/DIMENSION\s+(\d+)/i), <<>> when there is no match
matchDimension(text) ==
  LET i == AfterWord(text, "DIMENSION")
  IN IF i = 0 THEN <<>> ELSE DigitRun(text, i)

\* embeddingIndex.match(/DIST\s+(COSINE|EUCLIDEAN|DOTPRODUCT)/i)
matchMetric(text) ==
  LET i == AfterWord(text, "DIST")
  IN IF i > 0 /\ text[i] \in {"COSINE", "EUCLIDEAN", "DOTPRODUCT"} THEN <<text[i]>> ELSE <<>>

\* The dimension and the distance the store's index works with
\* The store's reading of each embedding index definition (the reading
\* depends on the text only, so each text is read once)
IndexReadings ==
  [text \in {EmbeddingIndexDef(IndexName, d, m) :
               d \in {2, 3, 4}, m \in {"COSINE", "EUCLIDEAN", "DOTPRODUCT"}} |->
     [dimension |-> ParseDigits(matchDimension(text)), dist |-> matchMetric(text)[1]]]

IndexDimension == IndexReadings[tableInfo[1]].dimension

IndexDist == IndexReadings[tableInfo[1]].dist

----------------------------------------------------------------------------
(* The store's statements on the vector table.  A table is the sequence of  *)
(* its rows [id, embedding, metadata] in key order.                         *)

IdsOf(table) == {table[i].id : i \in 1..Len(table)}

\* The HNSW index takes vectors of its dimension only
Accepts(vector) == Len(vector) = IndexDimension

InsertRow_NoUniqueKey(table, row) ==
  SelectSeq(table, LAMBDA r : Rank(r.id) <= Rank(row.id)) \o <<row>>
    \o SelectSeq(table, LAMBDA r : Rank(r.id) > Rank(row.id))

\* INSERT INTO ... ON DUPLICATE KEY UPDATE embedding = ..., metadata = ...
InsertRow(table, row) ==
  IF row.id \in IdsOf(table)
    THEN [i \in 1..Len(table) |-> IF table[i].id = row.id THEN row ELSE table[i]]
    ELSE SelectSeq(table, LAMBDA r : Rank(r.id) < Rank(row.id)) \o <<row>>
           \o SelectSeq(table, LAMBDA r : Rank(r.id) > Rank(row.id))

\* DELETE FROM ... WHERE cond
DeleteWhere(table, cond) == SelectSeq(table, LAMBDA r : ~ConditionHolds(cond, r, FALSE))

\* Rows with their distance to the query vector, nearest first; rows at the
\* same distance stay in key order.
RECURSIVE InsertByDistance(_, _)
InsertByDistance(sorted, row) ==
  IF Len(sorted) = 0 THEN <<row>>
  ELSE IF Head(sorted).rank <= row.rank
    THEN <<Head(sorted)>> \o InsertByDistance(Tail(sorted), row)
    ELSE <<row>> \o sorted

RECURSIVE SortByDistance(_)
SortByDistance(rows) ==
  IF Len(rows) = 0 THEN <<>>
  ELSE InsertByDistance(SortByDistance(SubSeq(rows, 1, Len(rows) - 1)), rows[Len(rows)])

StoreModes == {"pre", "post"}

\* SELECT ..., vector::distance::knn() AS distance FROM table WHERE cond
\* ORDER BY distance.  The k nearest rows are taken among the rows the rest of
\* the condition admits (mode "pre") or among all rows (mode "post"); a row
\* that the condition lets through without the nearest-neighbour atom has no
\* distance and sorts first.
SelectNearest(table, cond, queryVector, mode) ==
  LET Measure(row, d) == [row |-> row, known |-> TRUE, distance |-> d, rank |-> d]
      Unmeasured(row) == [row |-> row, known |-> FALSE, distance |-> 0, rank |-> 0 - 2 * Scale]
      Near(byDistance, k) == {byDistance[i].row.id : i \in 1..Min(k, Len(byDistance))}
      Ordered(hits, near) ==
        SortByDistance([i \in 1..Len(hits) |->
          IF hits[i].row.id \in near THEN hits[i] ELSE Unmeasured(hits[i].row)])
      Hits(measured, near) ==
        Ordered(SelectSeq(measured, LAMBDA m : ConditionHolds(cond, m.row, m.row.id \in near)),
                near)
      Candidates(measured) ==
        IF mode = "pre"
          THEN SelectSeq(measured, LAMBDA m : ConditionHolds(cond, m.row, TRUE))
          ELSE measured
      From(measured) ==
        Hits(measured, Near(SortByDistance(Candidates(measured)), ConditionK(cond)))
  IN From([i \in 1..Len(table) |->
            Measure(table[i], Distance(IndexDist, table[i].embedding, queryVector))])

----------------------------------------------------------------------------
(* SurrealVector *)

NoIndex == [dimension |-> 0, metric |-> NoMetric]

DefaultDimension == 1536

DefaultTopK == 10

NoTopK == -1

EF == 40

createIndex_SecondCallResets(params) ==
  IF tableInfo # <<>> THEN InfoIndexes(IndexName, DefaultDimension, "COSINE")
  ELSE InfoIndexes(IndexName, params.dimension,
                   METRIC_MAP(IF params.metric = NoMetric THEN "cosine" ELSE params.metric))

\* createIndex: the index definitions the DEFINE statements leave on the table.
\* The statements carry no IF NOT EXISTS; the store takes a definition it
\* already holds again.
createIndex(params) ==
  LET metric == IF params.metric = NoMetric THEN "cosine" ELSE params.metric
      surrealMetric == METRIC_MAP(metric)
  IN InfoIndexes(IndexName, params.dimension, surrealMetric)

\* Object.values(tableInfo.indexes).find(idx => idx.includes('embedding'))
findEmbeddingIndex_Last(indexes) ==
  LET hits == SelectSeq(indexes, includesEmbedding)
  IN IF Len(hits) = 0 THEN <<>> ELSE <<hits[Len(hits)]>>

findEmbeddingIndex(indexes) ==
  LET hits == SelectSeq(indexes, includesEmbedding)
  IN IF Len(hits) = 0 THEN <<>> ELSE <<hits[1]>>

\* SELECT count() as count FROM table GROUP ALL: no row for an empty table
CountResults_Stale(table) ==
  IF call.op = "upsert" THEN <<[count |-> Cardinality(call.before)]>>
  ELSE IF Len(table) = 0 THEN <<>> ELSE <<[count |-> Len(table)]>>

CountResults(table) == IF Len(table) = 0 THEN <<>> ELSE <<[count |-> Len(table)]>>

describeIndex ==
  LET countResults == CountResults(records)
      count == IF Len(countResults) = 0 THEN 0 ELSE countResults[1].count
      embeddingIndex == findEmbeddingIndex(tableInfo)
      dimMatch == IF Len(embeddingIndex) = 0 THEN <<>> ELSE matchDimension(embeddingIndex[1])
      metricMatch == IF Len(embeddingIndex) = 0 THEN <<>> ELSE matchMetric(embeddingIndex[1])
  IN [dimension |-> IF Len(dimMatch) = 0 THEN DefaultDimension ELSE ParseDigits(dimMatch),
      count |-> count,
      metric |-> IF Len(metricMatch) = 0 THEN "cosine" ELSE toLowerCase(metricMatch[1])]

NoId == <<>>

\* ids?.[i] || crypto.randomUUID()
idAt(ids, uuids, i) == IF i <= Len(ids) /\ ids[i] # NoId THEN ids[i] ELSE uuids[i]

\* Array.isArray(metadata) ? metadata[i] : metadata
metaAt(metadata, i) ==
  IF metadata.isArray
    THEN IF i <= Len(metadata.items) THEN metadata.items[i] ELSE NoMeta
    ELSE metadata.one

RECURSIVE UpsertLoop_UniqueIds(_, _, _, _, _)
UpsertLoop_UniqueIds(table, insertedIds, params, uuids, i) ==
  IF i > Len(params.vectors)
    THEN [table |-> table, insertedIds |-> insertedIds, error |-> FALSE]
  ELSE IF ~Accepts(params.vectors[i])
    THEN [table |-> table, insertedIds |-> insertedIds, error |-> TRUE]
  ELSE UpsertLoop_UniqueIds(InsertRow(table, [id |-> idAt(params.ids, uuids, i),
                                              embedding |-> params.vectors[i],
                                              metadata |-> metaAt(params.metadata, i)]),
                            IF idAt(params.ids, uuids, i) \in Range(insertedIds)
                              THEN insertedIds
                              ELSE Append(insertedIds, idAt(params.ids, uuids, i)),
                            params, uuids, i + 1)

RECURSIVE UpsertLoop(_, _, _, _, _)
UpsertLoop(table, insertedIds, params, uuids, i) ==
  IF i > Len(params.vectors)
    THEN [table |-> table, insertedIds |-> insertedIds, error |-> FALSE]
  ELSE IF ~Accepts(params.vectors[i])
    THEN [table |-> table, insertedIds |-> insertedIds, error |-> TRUE]
  ELSE UpsertLoop(InsertRow(table, [id |-> idAt(params.ids, uuids, i),
                                    embedding |-> params.vectors[i],
                                    metadata |-> metaAt(params.metadata, i)]),
                  Append(insertedIds, idAt(params.ids, uuids, i)), params, uuids, i + 1)

upsert(params, uuids) == UpsertLoop(records, <<>>, params, uuids, 1)

\* WHERE embedding <|${topK}, 40|> $queryVector [AND ${filterClauses}]
QueryWhere_DefaultTopK(topK, filter) ==
  LET knn == <<"embedding", "<|">> \o ToDigits(DefaultTopK) \o <<",">> \o ToDigits(EF)
               \o <<"|>", "$queryVector">>
      filterClauses == buildFilterClauses(filter)
  IN IF filter.present /\ Len(filter.entries) > 0 /\ Len(filterClauses) > 0
       THEN knn \o <<"AND">> \o filterClauses
       ELSE knn

QueryWhere(topK, filter) ==
  LET knn == <<"embedding", "<|">> \o ToDigits(topK) \o <<",">> \o ToDigits(EF)
               \o <<"|>", "$queryVector">>
      filterClauses == buildFilterClauses(filter)
  IN IF filter.present /\ Len(filter.entries) > 0 /\ Len(filterClauses) > 0
       THEN knn \o <<"AND">> \o filterClauses
       ELSE knn

NoVector == <<>>

\* The store's reading of the WHERE text of each topK and filter (the text
\* depends on nothing else, so it is read once)
QueryConditions ==
  [topK \in {DefaultTopK} \cup 1..MaxTopK, filter \in Filters |->
     Parse(QueryWhere(topK, filter))]

query(params, mode, form) ==
  LET topK == IF params.topK = NoTopK THEN DefaultTopK ELSE params.topK
      where == QueryConditions[topK, params.filter]
  IN IF ~where.ok \/ ~Accepts(params.queryVector)
       THEN [error |-> TRUE, result |-> <<>>]
       ELSE LET Results(rows) ==
                  [i \in 1..Len(rows) |->
                    [id |-> normalizeId(StoreRef(form, getTableName(IndexName), rows[i].row.id)),
                     score |-> IF rows[i].known THEN Scale - rows[i].distance ELSE 0,
                     metadata |-> rows[i].row.metadata,
                     vector |-> IF params.includeVector THEN rows[i].row.embedding
                                ELSE NoVector]]
            IN [error |-> FALSE,
                result |-> Results(SelectNearest(records, where, params.queryVector, mode))]

\* UPDATE table SET updatedAt, [embedding], [metadata] WHERE id = $id
updateVector(id, update) ==
  IF id \in IdsOf(records) /\ update.hasVector /\ ~Accepts(update.vector)
    THEN [table |-> records, error |-> TRUE]
    ELSE [table |-> [i \in 1..Len(records) |->
                       IF records[i].id = id
                         THEN [id |-> id,
                               embedding |-> IF update.hasVector THEN update.vector
                                             ELSE records[i].embedding,
                               metadata |-> IF update.hasMetadata THEN update.metadata
                                            ELSE records[i].metadata]
                         ELSE records[i]],
          error |-> FALSE]

\* DELETE FROM table WHERE id = $id
deleteVector(id) == SelectSeq(records, LAMBDA r : r.id # id)

\* ids.map(id => `"${id}"`).join(', ')
RECURSIVE QuoteIds(_)
QuoteIds(ids) ==
  IF Len(ids) = 0 THEN <<>> ELSE <<(<<DQ>> \o Head(ids) \o <<DQ>>)>> \o QuoteIds(Tail(ids))

deleteVectors(params) ==
  IF Len(params.ids) > 0
    THEN LET where == Parse(<<"id", "IN", "[">> \o Join(QuoteIds(params.ids), <<",">>)
                             \o <<"]">>)
         IN IF where.ok THEN [table |-> DeleteWhere(records, where), error |-> FALSE]
            ELSE [table |-> records, error |-> TRUE]
  ELSE IF params.filter.present
    THEN LET filterClauses == buildFilterClauses(params.filter)
             where == Parse(filterClauses)
         IN IF Len(filterClauses) = 0 THEN [table |-> records, error |-> FALSE]
            ELSE IF where.ok
              THEN [table |-> DeleteWhere(records, where), error |-> FALSE]
              ELSE [table |-> records, error |-> TRUE]
  ELSE [table |-> records, error |-> FALSE]

----------------------------------------------------------------------------
(* Operations on the vector collection.  The collection is worked on once   *)
(* createIndex has defined it.                                              *)

Configs ==
  {[dimension |-> 2, metric |-> "cosine"], [dimension |-> 3, metric |-> "euclidean"],
   [dimension |-> 4, metric |-> "dotproduct"], [dimension |-> 3, metric |-> NoMetric]}

\* Vectors a caller passes: those of the index's dimension and one that is not
CallerVectors == Vectors(IndexDimension) \cup {Unit(IndexDimension + 1, 1)}

MetadataArgs(n) ==
  {[isArray |-> FALSE, items |-> <<>>, one |-> m] : m \in {NoMeta, MetaX}}
    \cup {[isArray |-> TRUE, items |-> items, one |-> NoMeta] :
            items \in [1..n -> {MetaX, MetaY}]}

UpsertParams ==
  UNION {[vectors : [1..n -> CallerVectors],
          ids : SeqsUpTo(VecIds \cup {NoId}, n),
          metadata : MetadataArgs(n)] : n \in 0..MaxUpsert}

\* What crypto.randomUUID() can give for the items of params without an id:
\* ids that are new to the table and to the call
Uuids(params) ==
  {u \in [1..Len(params.vectors) -> VecIds] :
     \A i \in 1..Len(u) :
       IF i <= Len(params.ids) /\ params.ids[i] # NoId
         THEN u[i] = params.ids[i]
         ELSE /\ u[i] \notin IdsOf(records) \cup Range(params.ids)
              /\ \A j \in 1..(i - 1) : u[j] # u[i]}

\* The embedding and metadata last submitted for id among the first n items
Submitted(params, uuids, n, id) ==
  LET last == CHOOSE i \in 1..n :
                /\ idAt(params.ids, uuids, i) = id
                /\ \A j \in (i + 1)..n : idAt(params.ids, uuids, j) # id
  IN [embedding |-> params.vectors[last], metadata |-> metaAt(params.metadata, last)]

\* createIndex on no collection, or again with the parameters it was made with
CreateIndex ==
  /\ call = Idle
  /\ \E params \in Configs :
       /\ declared = NoIndex \/ declared = params
       /\ tableInfo' = createIndex(params)
       /\ declared' = params
  /\ call' = [op |-> "createIndex", again |-> declared # NoIndex, before |-> records,
              stats |-> describeIndex, error |-> FALSE]
  /\ UNCHANGED <<otherVars, messages, records>>

\* REMOVE TABLE
DeleteIndex ==
  /\ call = Idle /\ declared # NoIndex
  /\ tableInfo' = NoTable /\ records' = <<>> /\ declared' = NoIndex
  /\ call' = [op |-> "deleteIndex"]
  /\ UNCHANGED <<otherVars, messages>>

DescribeIndex ==
  /\ call = Idle /\ declared # NoIndex
  /\ call' = [op |-> "describeIndex", result |-> describeIndex]
  /\ UNCHANGED <<otherVars, messages, vectorVars>>

Upsert ==
  /\ call = Idle /\ declared # NoIndex
  /\ \E params \in UpsertParams :
       \E uuids \in Uuids(params) :
         LET done == upsert(params, uuids)
         IN /\ records' = done.table
            /\ call' = [op |-> "upsert", vectors |-> params.vectors, ids |-> params.ids,
                        metadata |-> params.metadata, uuids |-> uuids,
                        table |-> records, before |-> IdsOf(records),
                        result |-> done.insertedIds, error |-> done.error,
                        submitted |-> [id \in Range(done.insertedIds) |->
                                         Submitted(params, uuids, Len(done.insertedIds), id)]]
  /\ UNCHANGED <<otherVars, messages, tableInfo, declared>>

Query ==
  /\ call = Idle /\ declared # NoIndex
  /\ \E queryVector \in CallerVectors, topK \in {NoTopK} \cup 1..MaxTopK,
        filter \in Filters, includeVector \in BOOLEAN,
        mode \in StoreModes, form \in RefForms :
       LET params == [queryVector |-> queryVector, topK |-> topK, filter |-> filter,
                      includeVector |-> includeVector]
           done == query(params, mode, form)
       IN call' = [op |-> "query", queryVector |-> queryVector, topK |-> topK,
                   filter |-> filter, includeVector |-> includeVector,
                   error |-> done.error, result |-> done.result]
  /\ UNCHANGED <<otherVars, messages, vectorVars>>

UpdateVector ==
  /\ call = Idle /\ declared # NoIndex
  /\ \E id \in VecIds, hasVector \in BOOLEAN, hasMetadata \in BOOLEAN :
       \E vector \in (IF hasVector THEN CallerVectors ELSE {NoVector}),
          metadata \in (IF hasMetadata THEN {MetaX, MetaY} ELSE {NoMeta}) :
         LET done == updateVector(id, [hasVector |-> hasVector, vector |-> vector,
                                       hasMetadata |-> hasMetadata, metadata |-> metadata])
         IN /\ records' = done.table
            /\ call' = [op |-> "updateVector", error |-> done.error]
  /\ UNCHANGED <<otherVars, messages, tableInfo, declared>>

DeleteVector ==
  /\ call = Idle /\ declared # NoIndex
  /\ \E id \in VecIds :
       /\ records' = deleteVector(id)
       /\ call' = [op |-> "deleteVector", id |-> id, table |-> records, error |-> FALSE]
  /\ UNCHANGED <<otherVars, messages, tableInfo, declared>>

DeleteVectors ==
  /\ call = Idle /\ declared # NoIndex
  /\ \E ids \in SeqsUpTo(VecIds, MaxUpsert), filter \in Filters :
       /\ Len(ids) > 0 => filter \in {NoFilter, Filter(<<Entry("cat", JStr(<<"x">>))>>)}
       /\ LET done == deleteVectors([ids |-> ids, filter |-> filter])
          IN /\ records' = done.table
             /\ call' = [op |-> "deleteVectors", ids |-> ids, filter |-> filter,
                         table |-> records, error |-> done.error]
  /\ UNCHANGED <<otherVars, messages, tableInfo, declared>>

\* DELETE FROM table
TruncateIndex ==
  /\ call = Idle /\ declared # NoIndex
  /\ records' = <<>>
  /\ call' = [op |-> "truncateIndex"]
  /\ UNCHANGED <<otherVars, messages, tableInfo, declared>>

NextVector ==
  \/ CreateIndex \/ DeleteIndex \/ DescribeIndex \/ Upsert \/ Query
  \/ UpdateVector \/ DeleteVector \/ DeleteVectors \/ TruncateIndex \/ Resolve

SpecVector == Init /\ [][NextVector]_vars

----------------------------------------------------------------------------
(* The batch operations of both components.  The two components share no   *)
(* state; a behaviour works on one of them.                                 *)

BatchSaveMessages == declared = NoIndex /\ SaveMessages

BatchDeleteMessages == declared = NoIndex /\ DeleteMessages

BatchCreateIndex == (\A id \in MsgIds : messages[id] = NoMsg) /\ CreateIndex

BatchUpsert == (\A id \in MsgIds : messages[id] = NoMsg) /\ Upsert

NextBatch ==
  \/ BatchSaveMessages \/ BatchDeleteMessages \/ BatchCreateIndex \/ BatchUpsert
  \/ Resolve

SpecBatch == Init /\ [][NextBatch]_vars

----------------------------------------------------------------------------
(* normalizeId on its own: applied to the references the store hands out    *)
(* for a value, and to a string that carries no table name.                 *)

MaxIdLen == 2

IdChars == {"a", "1", ":", "<", ">", LB, RB}

IdValues == SeqsUpTo(IdChars, MaxIdLen) \ {<<>>}

\* A string as normalizeId takes it
AsString(str) == [kind |-> "string", str |-> str]

NormalizeRef ==
  /\ call = Idle
  /\ \E value \in IdValues, form \in RefForms :
       LET result == normalizeId(StoreRef(form, MessagesTable, value))
       IN call' = [op |-> "normalizeId", form |-> form, value |-> value,
                   result |-> result, again |-> normalizeId(AsString(result))]
  /\ UNCHANGED <<otherVars, messages, vectorVars>>

NormalizeBare ==
  /\ call = Idle
  /\ \E value \in IdValues :
       LET result == normalizeId(AsString(value))
       IN call' = [op |-> "normalizeId", form |-> "bare", value |-> value,
                   result |-> result, again |-> normalizeId(AsString(result))]
  /\ UNCHANGED <<otherVars, messages, vectorVars>>

NextNormalize == NormalizeRef \/ NormalizeBare \/ Resolve

SpecNormalize == Init /\ [][NextNormalize]_vars

----------------------------------------------------------------------------
(* What the context retrieval is expected to return, stated on the table *)

Earlier(x, y) ==
  \/ messages[x].createdAt < messages[y].createdAt
  \/ messages[x].createdAt = messages[y].createdAt /\ Rank(x) < Rank(y)

\* The createdAt-ascending list of the ids of a conversation
Conversation(T) ==
  LET S == {id \in MsgIds : Exists(id) /\ messages[id].threadId = T}
  IN CHOOSE s \in [1..Cardinality(S) -> S] :
       /\ \A i, j \in 1..Cardinality(S) : i < j => Earlier(s[i], s[j])

Position(s, id) == CHOOSE i \in 1..Len(s) : s[i] = id

Found(x) ==
  /\ Exists(x.id)
  /\ x.threadId # NoThread => messages[x.id].threadId = x.threadId

\* The ids an anchor stands for: its clipped window, or the target alone
\* when the anchor names no conversation
WindowOf(x) ==
  IF ~Found(x) THEN <<>>
  ELSE IF x.threadId = NoThread THEN <<x.id>>
  ELSE LET s == Conversation(x.threadId)
           p == Position(s, x.id)
       IN SubSeq(s, Max(1, p - x.withPreviousMessages),
                    Min(Len(s), p + x.withNextMessages))

IsInclude == call.op = "getMessages" /\ Len(call.include) > 0

ResultIds == [i \in 1..Len(call.result) |-> call.result[i].id]

Stored(id) ==
  [id |-> id, threadId |-> messages[id].threadId, createdAt |-> messages[id].createdAt]

\* C1: a single anchor with a threadId whose target is found at 0-based
\* position p of a conversation of n messages yields exactly the messages at
\* positions max(0, p-b) .. min(n-1, p+a), that is min(b,p) + 1 + min(a, n-1-p)
\* messages, each as stored.
C1_WindowClipping ==
  (IsInclude /\ Len(call.include) = 1 /\ call.include[1].threadId # NoThread
     /\ Found(call.include[1])) =>
    LET x == call.include[1]
        s == Conversation(x.threadId)
        n == Len(s)
        p == Position(s, x.id) - 1
        b == x.withPreviousMessages
        a == x.withNextMessages
    IN /\ Len(call.result) = Min(b, p) + 1 + Min(a, n - 1 - p)
       /\ \A k \in 1..Len(call.result) :
            /\ Max(0, p - b) + k - 1 \in 0..(n - 1)
            /\ call.result[k] = Stored(s[Max(0, p - b) + k])

\* C1 witness: a window clipped at the start and one clipped at the end of a
\* conversation of three messages.
C1_Witness ==
  /\ IsInclude /\ Len(call.include) = 1
  /\ call.include[1].threadId # NoThread /\ Found(call.include[1])
  /\ Len(Conversation(call.include[1].threadId)) = 3
  /\ Position(Conversation(call.include[1].threadId), call.include[1].id) = 1
  /\ call.include[1].withPreviousMessages = 1
  /\ call.include[1].withNextMessages = 1
  /\ Len(call.result) = 2

Mismatch(x) ==
  x.threadId # NoThread /\ Exists(x.id) /\ messages[x.id].threadId # x.threadId

\* C2: the ids returned for a list of anchors are exactly the union of the
\* anchors' clipped windows, each taken from the anchor's own conversation
\* (and the targets of anchors without threadId); every returned message is
\* of a conversation some anchor names or is such a target; the threadId
\* argument of getMessages plays no part.
C2_UnionOfWindows ==
  IsInclude =>
    /\ Range(ResultIds) =
         UNION {Range(WindowOf(call.include[i])) : i \in 1..Len(call.include)}
    /\ \A k \in 1..Len(call.result) :
         /\ call.result[k] = Stored(call.result[k].id)
         /\ \E i \in 1..Len(call.include) :
              \/ call.include[i].threadId = call.result[k].threadId
              \/ /\ call.include[i].threadId = NoThread
                 /\ call.include[i].id = call.result[k].id

\* C2 witness: two anchors found in two different conversations, the call's
\* own threadId being only one of them, and a stored message left out.
C2_Witness ==
  /\ IsInclude /\ Len(call.include) = 2
  /\ Found(call.include[1]) /\ Found(call.include[2])
  /\ call.include[1].threadId = "T2" /\ call.include[2].threadId = "T1"
  /\ call.threadId = "T1"
  /\ Len(call.result) = 2
  /\ \A id \in MsgIds : Exists(id)

\* C3: an anchor whose stated threadId differs from the threadId stored on its
\* message contributes nothing: every returned message is in the window of
\* an anchor that is not such a mismatch, and a list of mismatched anchors
\* alone returns nothing.
C3_MismatchYieldsNothing ==
  IsInclude =>
    \A k \in 1..Len(call.result) :
      \E i \in 1..Len(call.include) :
        /\ ~Mismatch(call.include[i])
        /\ ResultIds[k] \in Range(WindowOf(call.include[i]))

\* C3 witness: a single mismatched anchor, both the stated and the true
\* conversation holding messages, and an empty result.
C3_Witness ==
  /\ IsInclude /\ Len(call.include) = 1
  /\ Mismatch(call.include[1])
  /\ Conversation(call.include[1].threadId) # <<>>
  /\ call.include[1].withPreviousMessages = 1
  /\ call.result = <<>>

\* C4: the returned list holds each message id at most once.
C4_NoDuplicateIds ==
  IsInclude =>
    \A i, j \in 1..Len(call.result) : i # j => ResultIds[i] # ResultIds[j]

\* C4 witness: two anchors with overlapping windows, one of them the bare
\* target (no threadId) that the other's window already holds.
C4_Witness ==
  /\ IsInclude /\ Len(call.include) = 2
  /\ call.include[1].threadId # NoThread /\ call.include[2].threadId = NoThread
  /\ call.include[1].id # call.include[2].id
  /\ call.include[2].id \in Range(WindowOf(call.include[1]))
  /\ Len(call.result) = Len(WindowOf(call.include[1]))

\* C5: the returned list is in non-decreasing createdAt order.
C5_SortedByCreatedAt ==
  IsInclude =>
    \A i, j \in 1..Len(call.result) :
      i < j => call.result[i].createdAt <= call.result[j].createdAt

\* C5 witness: anchors of two conversations given latest first, the result
\* starting with a message of the second anchor's conversation.
C5_Witness ==
  /\ IsInclude /\ Len(call.include) = 2
  /\ Found(call.include[1]) /\ Found(call.include[2])
  /\ call.include[1].threadId # NoThread /\ call.include[2].threadId # NoThread
  /\ call.include[1].threadId # call.include[2].threadId
  /\ messages[call.include[1].id].createdAt > messages[call.include[2].id].createdAt
  /\ Len(call.result) = 3
  /\ call.result[1].threadId = call.include[2].threadId
  /\ call.result[1].createdAt < call.result[3].createdAt

----------------------------------------------------------------------------
(* What the vector collection is expected to do *)

\* Whether metadata meets one filter entry of a supported, non-null value
Satisfies(metadata, entry) ==
  IF entry.value.t \in {"string", "number", "boolean"}
    THEN metadata[entry.key] = entry.value
  ELSE IF entry.value.t = "array"
    THEN \E i \in 1..Len(entry.value.items) : metadata[entry.key] = entry.value.items[i]
  ELSE TRUE

SatisfiesAll(metadata, filter) ==
  \A i \in 1..Len(filter.entries) : Satisfies(metadata, filter.entries[i])

IsQuery == call.op = "query" /\ ~call.error

TopKOf == IF call.topK = NoTopK THEN DefaultTopK ELSE call.topK

QueryIds == [i \in 1..Len(call.result) |-> call.result[i].id]

DeclaredMetric == IF declared.metric = NoMetric THEN "cosine" ELSE declared.metric

\* C6: every record that query returns under a filter satisfies every key of
\* the filter that has a string, number, boolean or array value (equality for
\* the scalars, membership for arrays, all keys at once), and a filter that
\* no stored record satisfies yields the empty list.  The filter whose string
\* value holds a double quote breaks it.
C6_FilteredResultsSatisfyFilter ==
  (IsQuery /\ call.filter.present) =>
    /\ \A i \in 1..Len(call.result) : SatisfiesAll(call.result[i].metadata, call.filter)
    /\ (\A j \in 1..Len(records) : ~SatisfiesAll(records[j].metadata, call.filter))
         => call.result = <<>>

C6_Witness ==
  /\ IsQuery
  /\ call.filter = Filter(<<Entry("cat", JStr(Quoted))>>)
  /\ \E i \in 1..Len(call.result) : call.result[i].metadata["cat"] # JStr(Quoted)

\* C7: a query without a filter, with a query vector of the index's
\* dimension, raises no error and returns at most topK records; when topK is
\* at least the number of stored records it returns each stored id exactly
\* once and nothing else; on an empty collection it returns the empty list.
C7_TopKClamp ==
  (call.op = "query" /\ ~call.filter.present
     /\ Len(call.queryVector) = declared.dimension) =>
    /\ ~call.error
    /\ Len(call.result) <= TopKOf
    /\ TopKOf >= Len(records) =>
         /\ Len(call.result) = Len(records)
         /\ Range(QueryIds) = IdsOf(records)
         /\ \A i, j \in 1..Len(QueryIds) : i # j => QueryIds[i] # QueryIds[j]
    /\ records = <<>> => call.result = <<>>

C7_Witness ==
  /\ IsQuery /\ ~call.filter.present
  /\ call.topK = NoTopK
  /\ Len(records) = 2 /\ Len(call.result) = 2

\* C8: no two stored records share an id, and after an upsert the count that
\* describeIndex gives is the number of ids stored before the call or written
\* by it (unchanged when every written id was already stored), and each
\* written id holds the embedding and metadata last submitted for it.
C8_UpsertReplaces ==
  /\ \A i, j \in 1..Len(records) : i # j => records[i].id # records[j].id
  /\ call.op = "upsert" =>
       /\ describeIndex.count = Cardinality(call.before \cup Range(call.result))
       /\ Range(call.result) \subseteq call.before
            => describeIndex.count = Cardinality(call.before)
       /\ \A id \in Range(call.result) :
            \E i \in 1..Len(records) :
              /\ records[i].id = id
              /\ records[i].embedding = call.submitted[id].embedding
              /\ records[i].metadata = call.submitted[id].metadata

C8_Witness ==
  /\ call.op = "upsert" /\ ~call.error
  /\ Len(call.result) = 2 /\ call.result[1] = call.result[2]
  /\ call.result[1] \in call.before

C10_CountIsLive ==
  declared # NoIndex =>
    /\ describeIndex.count = Cardinality(IdsOf(records))
    /\ (call.op = "truncateIndex" \/ (call.op = "createIndex" /\ ~call.again))
         => describeIndex.count = 0
    /\ call.op = "describeIndex" => call.result.count = Cardinality(IdsOf(records))

C10_Witness ==
  /\ call.op = "describeIndex"
  /\ call.result.count = MaxVecs
  /\ Len(records) = MaxVecs

Mismatches == {i \in 1..Len(call.vectors) : Len(call.vectors[i]) # declared.dimension}

\* C12: an upsert whose batch holds a vector of another length than the
\* collection's dimension fails and writes nothing: the stored records are
\* those from before the call.  The code writes the items before the
\* offending one.
C12_MismatchRejectsWholeBatch ==
  (call.op = "upsert" /\ Mismatches # {}) =>
    /\ call.error
    /\ records = call.table

C12_Witness ==
  /\ call.op = "upsert" /\ call.error
  /\ Mismatches = {2}
  /\ Len(records) = Len(call.table) + 1

\* C13: when the store call of the k-th item of saveMessages, deleteMessages
\* or upsert fails, the call fails, the items before k are applied and stay
\* applied, and the items from k on have no effect.
C13_BatchFailureKeepsPrefix ==
  /\ (call.op = "saveMessages" /\ call.failAt # NoFailure) =>
       /\ call.error
       /\ \A id \in MsgIds :
            LET writers == {i \in 1..(call.failAt - 1) : call.messages[i].id = id}
                first == CHOOSE i \in writers : \A j \in writers : i <= j
            IN IF call.table[id] # NoMsg THEN messages[id] = call.table[id]
               ELSE IF writers = {} THEN messages[id] = NoMsg
               ELSE /\ messages[id] # NoMsg
                    /\ messages[id].threadId = call.messages[first].threadId
  /\ (call.op = "deleteMessages" /\ call.failAt # NoFailure) =>
       /\ call.error
       /\ \A id \in MsgIds :
            messages[id] = IF \E i \in 1..(call.failAt - 1) : call.messageIds[i] = id
                             THEN NoMsg ELSE call.table[id]
  /\ (call.op = "upsert" /\ Mismatches # {}) =>
       LET k == CHOOSE i \in Mismatches : \A j \in Mismatches : i <= j
           written == {idAt(call.ids, call.uuids, i) : i \in 1..(k - 1)}
       IN /\ call.error
          /\ Len(call.result) = k - 1
          /\ IdsOf(records) = IdsOf(call.table) \cup written
          /\ \A i \in 1..Len(records) :
               IF records[i].id \in written
                 THEN /\ records[i].embedding = call.submitted[records[i].id].embedding
                      /\ records[i].metadata = call.submitted[records[i].id].metadata
                 ELSE \E j \in 1..Len(call.table) : call.table[j] = records[i]

C13_Witness ==
  /\ call.op = "saveMessages" /\ call.error /\ call.failAt = 2
  /\ call.messages[1].id # call.messages[2].id
  /\ call.table[call.messages[1].id] = NoMsg /\ messages[call.messages[1].id] # NoMsg
  /\ messages[call.messages[2].id] = NoMsg

\* C14: normalizeId applied to its own result gives that result again, for
\* every reference the store hands out, also when the value holds ':' or
\* begins or ends with '<', '>', U+27E8 or U+27E9.  A value that holds ':'
\* breaks it.
C14_NormalizeIdIdempotent ==
  (call.op = "normalizeId" /\ call.form \in RefForms) => call.again = call.result

C14_Witness ==
  /\ call.op = "normalizeId" /\ call.form = "object"
  /\ call.value = <<"a", ":">>
  /\ call.result = <<"a", ":">> /\ call.again = <<>>

Missing(x) ==
  \/ ~Exists(x.id)
  \/ x.threadId # NoThread /\ \A id \in MsgIds : Exists(id) => messages[id].threadId # x.threadId

\* C16: an anchor whose message or conversation does not exist adds nothing
\* to the result of getMessages with include, and every other anchor of the
\* list, before or after it, still gives its whole window.
C16_MissingAnchorOmitted ==
  IsInclude =>
    \A i \in 1..Len(call.include) :
      Missing(call.include[i]) =>
        /\ Range(ResultIds) =
             UNION {Range(WindowOf(call.include[j])) : j \in 1..Len(call.include) \ {i}}
        /\ \A j \in 1..Len(call.include) \ {i} :
             Range(WindowOf(call.include[j])) \subseteq Range(ResultIds)

C16_Witness ==
  /\ IsInclude /\ Len(call.include) = 2
  /\ ~Exists(call.include[1].id)
  /\ call.include[2].threadId # NoThread /\ Found(call.include[2])
  /\ Len(WindowOf(call.include[2])) = 2
  /\ Len(call.result) = 2

\* C17: anchors that name no conversation give exactly their own messages,
\* as stored and whatever conversation they are in, and nothing for an id
\* that is not stored; withPreviousMessages and withNextMessages play no part.
C17_BareAnchorGivesTargetOnly ==
  (IsInclude /\ \A i \in 1..Len(call.include) : call.include[i].threadId = NoThread) =>
    /\ Range(ResultIds) =
         {call.include[i].id : i \in {j \in 1..Len(call.include) : Exists(call.include[j].id)}}
    /\ \A k \in 1..Len(call.result) : call.result[k] = Stored(call.result[k].id)
    /\ Len(call.include) = 1 =>
         call.result = IF Exists(call.include[1].id)
                         THEN <<Stored(call.include[1].id)>> ELSE <<>>

C17_Witness ==
  /\ IsInclude /\ Len(call.include) = 1
  /\ call.include[1].threadId = NoThread
  /\ call.include[1].withPreviousMessages = 1 /\ call.include[1].withNextMessages = 1
  /\ Exists(call.include[1].id)
  /\ Len(Conversation(messages[call.include[1].id].threadId)) = 3
  /\ Position(Conversation(messages[call.include[1].id].threadId), call.include[1].id) = 2
  /\ Len(call.result) = 1

IsUpsert == call # Idle /\ call.op = "upsert"

\* The caller gave an id for item i of the upsert
Supplied(i) == i <= Len(call.ids) /\ call.ids[i] # NoId

\* The last item of the upsert stored under the id returned for item i
LastAt(i) ==
  CHOOSE j \in 1..Len(call.result) :
    /\ call.result[j] = call.result[i]
    /\ \A l \in (j + 1)..Len(call.result) : call.result[l] # call.result[i]

\* C18: an upsert that returns gives one id for each vector, in the order
\* of the vectors: the caller's id where one was given, elsewhere an id that
\* is new to the collection and to the call; the collection holds under each
\* returned id the vector submitted for it (the last one when the call names
\* the id twice).
C18_UpsertReturnsStoredIds ==
  (IsUpsert /\ ~call.error) =>
    /\ Len(call.result) = Len(call.vectors)
    /\ \A i \in 1..Len(call.result) :
         /\ IF Supplied(i)
              THEN call.result[i] = call.ids[i]
              ELSE /\ call.result[i] \notin call.before \cup Range(call.ids)
                   /\ \A j \in 1..Len(call.result) \ {i} : call.result[j] # call.result[i]
         /\ \E k \in 1..Len(records) :
              /\ records[k].id = call.result[i]
              /\ records[k].embedding = call.vectors[LastAt(i)]
              /\ \A l \in 1..Len(records) \ {k} : records[l].id # call.result[i]

C18_Witness ==
  /\ IsUpsert /\ ~call.error
  /\ Len(call.vectors) = 2 /\ call.vectors[1] # call.vectors[2]
  /\ Supplied(1) /\ ~Supplied(2)
  /\ call.result[1] = call.ids[1] /\ call.result[2] # call.ids[1]
  /\ Len(records) = 2

\* The embedding stored under id
EmbeddingOf(id) == records[CHOOSE k \in 1..Len(records) : records[k].id = id].embedding

\* C19: the records of a query come in non-increasing score order, each
\* with the score 1 - distance of its embedding to the query vector in the
\* metric of the collection, and a returned record whose embedding is the
\* query vector has the score of the first record.
C19_ScoreOrder ==
  (IsQuery /\ ~call.error) =>
    /\ \A i \in 1..Len(call.result) :
         call.result[i].score =
           Scale - Distance(IndexDist, EmbeddingOf(call.result[i].id), call.queryVector)
    /\ \A i \in 1..Len(call.result) : \A j \in i..Len(call.result) :
         call.result[i].score >= call.result[j].score
    /\ \A i \in 1..Len(call.result) :
         EmbeddingOf(call.result[i].id) = call.queryVector
           => call.result[1].score = call.result[i].score

C19_Witness ==
  /\ IsQuery /\ Len(call.result) = 2
  /\ call.result[1].score < call.result[2].score
  /\ EmbeddingOf(call.result[2].id) = call.queryVector

IsDelete == call.op \in {"deleteVector", "deleteVectors"}

\* The filter states a condition: it has an entry whose value is a string,
\* a number, a boolean or a list
StatesCondition(filter) ==
  filter.present /\ \E i \in 1..Len(filter.entries) :
                      filter.entries[i].value.t \in {"string", "number", "boolean", "array"}

\* The record is named by the id or ids of the call or, when the call gives
\* no ids, satisfies its filter
Named(r) ==
  IF call.op = "deleteVector" THEN r.id = call.id
  ELSE IF Len(call.ids) > 0 THEN r.id \in Range(call.ids)
  ELSE StatesCondition(call.filter) /\ SatisfiesAll(r.metadata, call.filter)

\* C20: deleteVector and deleteVectors raise no error and leave the
\* collection as it was without the records named by id or satisfying the
\* filter: every other record stays, unchanged and in place, and an id that
\* is not stored changes nothing.
C20_DeleteExactlyNamed ==
  IsDelete =>
    /\ ~call.error
    /\ records = SelectSeq(call.table, LAMBDA r : ~Named(r))

C20_Witness ==
  /\ call.op = "deleteVectors" /\ ~call.error
  /\ call.ids = <<>> /\ call.filter = Filter(<<Entry("cat", JStr(Quoted))>>)
  /\ Len(call.table) = 2 /\ records = <<>>
  /\ \A i \in 1..Len(call.table) : call.table[i].metadata["cat"] # JStr(Quoted)


\* C21: after a successful deleteThread for a thread id, getThreadById for it
\* is null and no message carries that threadId, while the threads and the
\* messages of every other conversation are as they were before the call.
C21_DeleteThreadRemovesOnlyItsConversation ==
  (call.op = "deleteThread" /\ ~call.error) =>
    /\ getThreadById(threads, call.threadId) = NoThreadRow
    /\ \A id \in MsgIds : messages[id].threadId # call.threadId
    /\ \A other \in Threads \ {call.threadId} : threads[other] = call.threads[other]
    /\ \A id \in MsgIds :
         call.table[id].threadId # call.threadId => messages[id] = call.table[id]

C21_Witness ==
  /\ call.op = "deleteThread" /\ ~call.error
  /\ call.threads[call.threadId] # NoThreadRow
  /\ \E id \in MsgIds : call.table[id].threadId = call.threadId
  /\ \E id \in MsgIds : Exists(id)
  /\ \E other \in Threads : threads[other] # NoThreadRow


\* C23: updateThread for an id with no thread row, and updateResource for a
\* resourceId with no resource row, fail with the not-found error and leave
\* the thread table and the resource table as they were: nothing is created,
\* nothing is changed.
C23_UpdateOfUnknownIsRejected ==
  /\ (call.op = "updateThread" /\ call.threads[call.id] = NoThreadRow) =>
       call.error /\ threads = call.threads /\ resources = call.resources
  /\ (call.op = "updateResource"
        /\ \A i \in 1..Len(call.resources) :
             call.resources[i].resourceId # call.resourceId) =>
       call.error /\ threads = call.threads /\ resources = call.resources

C23_Witness ==
  /\ call.op = "updateResource" /\ call.error
  /\ call.resources # <<>>
  /\ \E threadId \in Threads : threads[threadId] # NoThreadRow
  /\ \E threadId \in Threads : threads[threadId] = NoThreadRow


\* C22: getMessages with selectBy.last = N and no include returns
\* min(N, n) messages of the conversation of n messages, namely the ones
\* with the greatest createdAt, in ascending createdAt order.
C22_LastSelectsNewest ==
  (call.op = "getMessages" /\ call.include = <<>> /\ call.last # NoLast) =>
    LET s == Conversation(call.threadId)
        k == Min(call.last, Len(s))
    IN /\ Len(call.result) = k
       /\ \A i \in 1..Len(call.result) :
            /\ call.result[i].threadId = call.threadId
            /\ i <= k => call.result[i].createdAt = messages[s[Len(s) - k + i]].createdAt

C22_Witness ==
  /\ call.op = "getMessages" /\ call.include = <<>> /\ call.last = 1
  /\ Len(Conversation(call.threadId)) = 2
  /\ Len(call.result) = 1
  /\ \E id \in MsgIds :
       /\ messages[id].threadId = call.threadId
       /\ messages[id].createdAt > call.result[1].createdAt


\* C24: getMessages with include returns the same list when the anchors are
\* given in the opposite order, whatever the createdAt values of the stored
\* messages are.
C24_AnchorOrderIrrelevant ==
  IsInclude =>
    \A form \in RefForms :
      LET swapped == [i \in 1..Len(call.include) |->
                        call.include[Len(call.include) + 1 - i]]
      IN getMessagesWithContext(call.include, form) = call.result =>
           getMessagesWithContext(swapped, form) = call.result

C24_Witness ==
  /\ IsInclude
  /\ Len(call.include) = 2
  /\ Len(call.result) = 2
  /\ call.include[1].id # call.include[2].id
  /\ call.result[1].createdAt = call.result[2].createdAt
  /\ call.result[1].threadId # call.result[2].threadId


\* C25: a query whose filter states a condition returns min(topK, m) records,
\* all among the m stored records that satisfy the filter, and no satisfying
\* record left out is nearer to the query vector than a returned one, however
\* many records that do not satisfy the filter are nearer.
C25_FilterBeforeTopK ==
  (IsQuery /\ StatesCondition(call.filter)) =>
    LET matching == {r \in Range(records) : SatisfiesAll(r.metadata, call.filter)}
        returned == Range(QueryIds)
    IN /\ Len(call.result) = Min(TopKOf, Cardinality(matching))
       /\ \A id \in returned : \E r \in matching : r.id = id
       /\ \A r \in matching : r.id \notin returned =>
            \A id \in returned :
              Distance(IndexDist, EmbeddingOf(id), call.queryVector)
                <= Distance(IndexDist, r.embedding, call.queryVector)

C25_Witness ==
  /\ IsQuery /\ call.topK = 1 /\ call.result = <<>>
  /\ call.filter = Filter(<<Entry("cat", JStr(<<"x">>))>>)
  /\ \E r \in Range(records) : SatisfiesAll(r.metadata, call.filter)
  /\ \E r \in Range(records) : ~SatisfiesAll(r.metadata, call.filter)


Supported(value) == value.t \in {"string", "number", "boolean", "array"}

HasIgnored(filter) ==
  filter.present /\ \E i \in 1..Len(filter.entries) : ~Supported(filter.entries[i].value)

\* The filter without its null, undefined and object-valued keys
Strip(filter) ==
  [present |-> filter.present,
   entries |-> SelectSeq(filter.entries, LAMBDA e : Supported(e.value))]

QueryWith(filter, mode, form) ==
  query([queryVector |-> call.queryVector, topK |-> call.topK, filter |-> filter,
         includeVector |-> call.includeVector], mode, form)

\* C26: a filter key whose value is null, undefined or an object raises no
\* error and adds nothing to the condition: query sends the condition of the
\* filter without that key and resolves as it does for that filter (as for
\* no filter at all when no other key is left), the remaining keys still
\* restrict the result, and deleteVectors deletes exactly the records that
\* satisfy the remaining keys, none when no key is left.
C26_IgnoredKeysAreAbsent ==
  /\ (call.op = "query" /\ HasIgnored(call.filter)) =>
       /\ QueryWhere(TopKOf, call.filter) = QueryWhere(TopKOf, Strip(call.filter))
       /\ call.error => ~Accepts(call.queryVector)
       /\ \E mode \in StoreModes, form \in RefForms :
            /\ QueryWith(Strip(call.filter), mode, form).error = call.error
            /\ QueryWith(Strip(call.filter), mode, form).result = call.result
       /\ Strip(call.filter).entries = <<>> =>
            \E mode \in StoreModes, form \in RefForms :
              QueryWith(NoFilter, mode, form).result = call.result
       /\ \A i \in 1..Len(call.result) :
            SatisfiesAll(call.result[i].metadata, Strip(call.filter))
  /\ (call.op = "deleteVectors" /\ call.ids = <<>> /\ HasIgnored(call.filter)) =>
       /\ ~call.error
       /\ records = SelectSeq(call.table, LAMBDA r : ~Named(r))
       /\ Strip(call.filter).entries = <<>> => records = call.table

C26_Witness ==
  /\ IsQuery
  /\ call.filter = Filter(<<Entry("cat", JNull), Entry("n", JNum(2))>>)
  /\ Len(records) = 2 /\ Len(call.result) = 1
  /\ \E r \in Range(records) : r.metadata["n"] # JNum(2)


\* C27: a saveMessages or updateMessages call leaves the threadId, role, type
\* and createdAt of every message that was stored before it as they were, so
\* no stored message changes conversation or its place in the createdAt order
\* of the others; saveMessages of one message whose id is stored sets its
\* content to the submitted one.
C27_OnlyContentChanges ==
  [][call'.op \in {"saveMessages", "updateMessages"} =>
       /\ \A id \in MsgIds :
            messages[id] # NoMsg =>
              /\ messages'[id].threadId = messages[id].threadId
              /\ messages'[id].role = messages[id].role
              /\ messages'[id].type = messages[id].type
              /\ messages'[id].createdAt = messages[id].createdAt
       /\ \A x, y \in MsgIds :
            (messages[x] # NoMsg /\ messages[y] # NoMsg) => (Earlier(x, y) <=> Earlier(x, y)')
       /\ (call'.op = "saveMessages" /\ ~call'.error /\ Len(call'.messages) = 1) =>
            messages'[call'.messages[1].id].content = call'.messages[1].content]_vars

C27_Witness ==
  /\ call.op = "saveMessages" /\ ~call.error /\ Len(call.messages) = 1
  /\ LET msg == call.messages[1]
         old == call.table[msg.id]
     IN /\ old # NoMsg
        /\ old.threadId # msg.threadId /\ old.role # msg.role /\ old.type # msg.type
        /\ msg.createdAt # NoTime /\ old.createdAt # msg.createdAt
        /\ old.content # msg.content
        /\ messages[msg.id].content = msg.content
        /\ \E other \in MsgIds \ {msg.id} : Exists(other)


\* C28: between construction (or the last close) and the next close at most
\* one connect/signin/use handshake completes on the instance, however many
\* operations call init() before the first handshake has completed; and
\* init() on a connected instance returns without a store call.
C28_OneHandshake ==
  /\ handshakes <= 1
  /\ \A p, q \in Callers :
       (p # q /\ pc[p] \in {"connect", "signin", "use"}) => pc[q] \notin {"connect", "signin", "use"}

C28_Witness ==
  /\ handshakes = 2
  /\ isConnected
  /\ \A p \in Callers : pc[p] \in {"out", "returned"}


\* C29: deleteVectors called without ids (absent or empty) and with no
\* filter, or with a filter that yields no clause, deletes no record; and a
\* deleteVectors call leaves a non-empty collection empty only when every
\* record of it is named by the ids or satisfies the filter.
C29_NoUnconditionalDelete ==
  call.op = "deleteVectors" =>
    /\ (call.ids = <<>> /\ (~call.filter.present \/ buildFilterClauses(call.filter) = <<>>))
         => (~call.error /\ records = call.table)
    /\ (records = <<>> /\ call.table # <<>>)
         => \A r \in Range(call.table) : Named(r)

C29_Witness ==
  /\ call.op = "deleteVectors" /\ ~call.error
  /\ call.ids = <<>> /\ StatesCondition(call.filter)
  /\ call.table # <<>> /\ records = <<>>
  /\ \E r \in Range(call.table) : ~SatisfiesAll(r.metadata, call.filter)


\* C30: in every interleaving of the two reads of an anchor with the store
\* calls of concurrent saveMessages, deleteMessages and deleteThread, every
\* message returned for the anchor carries the anchor's threadId, and when
\* the target read first is no longer among the conversation read second,
\* the result is exactly that target as first read, with no window.
C30_RaceYieldsTargetOnly ==
  reader.pc = "done" =>
    /\ \A i \in 1..Len(reader.result) :
         reader.result[i].threadId = reader.include.threadId
    /\ (reader.targetResults # <<>>
          /\ \A j \in 1..Len(reader.threadMessages) :
               reader.threadMessages[j].id # reader.targetResults[1].id)
         => reader.result = <<Emit(reader.targetResults[1])>>

C30_Witness ==
  /\ reader.pc = "done"
  /\ reader.targetResults # <<>>
  /\ reader.include.withPreviousMessages = 1 /\ reader.include.withNextMessages = 1
  /\ Len(reader.threadMessages) = 2
  /\ \A j \in 1..Len(reader.threadMessages) :
       reader.threadMessages[j].id # reader.targetResults[1].id
  /\ ~Exists(reader.include.id)
  /\ Len(reader.result) = 1

====
